---- MODULE Spec2Model ----
(***************************************************************************)
(* Medication schedule application: the schedule generator                 *)
(* (utils/scheduleUtils.ts), the IndexedDB persistence layer               *)
(* (db/database.ts), the medication store (store/medicationStore.ts) and   *)
(* the mark-done flow of the schedule list (components/ScheduleList).      *)
(*                                                                         *)
(* Strings are sequences of integer tokens, compared lexicographically as  *)
(* JavaScript compares strings.  A calendar date 'YYYY-MM-DD' is the one    *)
(* token DayBase + d (zero padded, so token order is date order), a time   *)
(* of day 'HH:MM' is the one token TimeBase + h.  Instants are whole hours *)
(* since 00:00 UTC of day 0.                                                *)
(***************************************************************************)
EXTENDS Integers, Sequences, FiniteSets, TLC

VARIABLES
  tz,                 \* the browser's UTC offset in hours (local = UTC + tz)
  now,                \* the current instant
  gMeds, gDate, gEnd, \* arguments of the last generator call
  gOut,               \* result of generateScheduleForDate
  gMap,               \* result of generateScheduleForRange
  gPhase,             \* "init" | "date" | "range"
  dbMeds,             \* IndexedDB table medications (committed rows)
  dbRecs,             \* IndexedDB table medicationRecords (committed rows)
  tx,                 \* the read-write transaction of deleteMedication
  store,              \* useMedicationStore: medications, records, loading, error
  mgr,                \* the store action running for the medications page
  hs,                 \* running handleCheckboxChange / loadSchedule calls
  scheduleItems,      \* ScheduleList state: the rendered occurrences
  uiLoading,          \* ScheduleList state: loading
  nextMed, nextRec,   \* how many medication / record ids were generated
  faults,             \* how many storage requests have failed
  effectLen,          \* medications.length at the last run of the effect
  calls               \* the calls of exported functions made so far

genVars == <<gMeds, gDate, gEnd, gOut, gMap, gPhase>>
appVars == <<now, dbMeds, dbRecs, tx, store, mgr, hs, scheduleItems, uiLoading,
            nextMed, nextRec, faults, effectLen, calls>>
vars == <<tz, genVars, appVars>>

-----------------------------------------------------------------------------
(* Bounds of the model *)

MaxDay == 3
MaxMeds == 1
MaxDefs == 2
MaxRecs == 2
MaxHandlers == 2
MaxFaults == 1
MaxCalls == 2
MaxMergeRecs == 2
BigCount == 400
MaxAgeHours == 25
BandTenths == 5

-----------------------------------------------------------------------------
(* String tokens *)

US == 1        \* "_"
TSEP == 2      \* "T"
SEC == 3       \* ":00"
ZED == 4       \* ":00:00.000Z"
MEDPFX == 5    \* "med"
RECPFX == 6    \* "rec"
SEC59 == 7     \* ":59"
DayBase == 200
TimeBase == 100
NameBase == 300
DoseBase == 400

NULL == <<>>

\* no effect has run yet
NotMounted == -1

Days == 1..MaxDay
TzOffsets == {-5, 0, 9}
UtcHours == {0, 20}

\* 'YYYY-MM-DD'
DateOnly(d) == <<DayBase + d>>
\* 'YYYY-MM-DDTHH:00:00.000Z' (Date.prototype.toISOString)
UtcStr(d, h) == <<DayBase + d, TSEP, TimeBase + h, ZED>>
\* 'YYYY-MM-DDTHH:00:00' (no offset)
LocalStr(d, h) == <<DayBase + d, TSEP, TimeBase + h, SEC>>

\* 'HH:MM'
T08 == <<TimeBase + 8>>
T12 == <<TimeBase + 12>>
T20 == <<TimeBase + 20>>
\* 'T00:00:00' and 'T23:59:59', the latter after every 'THH:00:00'
StartOfDay == <<TSEP, TimeBase + 0, SEC>>
EndOfDay == <<TSEP, TimeBase + 24, SEC59>>

RECURSIVE StrLess(_, _)
\* a < b on JavaScript strings
StrLess(a, b) ==
  IF b = <<>> THEN FALSE
  ELSE IF a = <<>> THEN TRUE
  ELSE IF Head(a) # Head(b) THEN Head(a) < Head(b)
  ELSE StrLess(Tail(a), Tail(b))

StrLeq(a, b) == a = b \/ StrLess(a, b)

-----------------------------------------------------------------------------
(* dayjs *)

\* dayjs(s): a date-only or offset-less string is local time, a string
\* ending in Z (or a Date object) is an instant.
DayjsParseUtcDateOnly(s) ==
  IF Len(s) = 1 THEN (s[1] - DayBase) * 24
  ELSE IF s[Len(s)] = ZED THEN (s[1] - DayBase) * 24 + (s[3] - TimeBase)
  ELSE (s[1] - DayBase) * 24 + (s[3] - TimeBase) - tz

DayjsParse(s) ==
  IF Len(s) = 1 THEN (s[1] - DayBase) * 24 - tz
  ELSE IF s[Len(s)] = ZED THEN (s[1] - DayBase) * 24 + (s[3] - TimeBase)
  ELSE (s[1] - DayBase) * 24 + (s[3] - TimeBase) - tz

\* the local calendar day number of an instant
LocalDay(t) == (t + tz) \div 24

\* dayjs(...).format("YYYY-MM-DD")
FormatYMD(t) == <<DayBase + LocalDay(t)>>

-----------------------------------------------------------------------------
(* utils/scheduleUtils.ts *)

RECURSIVE InsertSorted(_, _)
\* x goes after every element whose scheduledTime is <= its own (stable)
InsertSorted(s, x) ==
  IF s = <<>> THEN <<x>>
  ELSE IF StrLess(x.scheduledTime, Head(s).scheduledTime) THEN <<x>> \o s
  ELSE <<Head(s)>> \o InsertSorted(Tail(s), x)

RECURSIVE SortByScheduledTime(_)
\* Array.prototype.sort with localeCompare on scheduledTime (a stable sort)
SortByScheduledTime(s) ==
  IF s = <<>> THEN <<>>
  ELSE InsertSorted(SortByScheduledTime(SubSeq(s, 1, Len(s) - 1)), s[Len(s)])

IsInRangeExclusiveEnd(medication, targetDate) ==
  LET startDate == FormatYMD(DayjsParse(medication.startDate))
      endDate == IF medication.endDate # NULL
                 THEN FormatYMD(DayjsParse(medication.endDate))
                 ELSE NULL
  IN  /\ StrLeq(startDate, targetDate)
      /\ (endDate = NULL \/ StrLess(targetDate, endDate))

IsInRange(medication, targetDate) ==
  LET startDate == FormatYMD(DayjsParse(medication.startDate))
      endDate == IF medication.endDate # NULL
                 THEN FormatYMD(DayjsParse(medication.endDate))
                 ELSE NULL
  IN  /\ StrLeq(startDate, targetDate)
      /\ (endDate = NULL \/ StrLeq(targetDate, endDate))

MakeScheduleItemIdFromTime(medication, targetDate, time) ==
  LET scheduledTime == targetDate \o <<TSEP>> \o time \o <<SEC>>
  IN  [id |-> medication.id \o <<US>> \o time,
       medicationId |-> medication.id,
       medicationName |-> medication.name,
       dosage |-> medication.dosage,
       scheduledTime |-> scheduledTime,
       completed |-> FALSE,
       actualTime |-> NULL,
       recordId |-> NULL]

MakeScheduleItem(medication, targetDate, time) ==
  LET scheduledTime == targetDate \o <<TSEP>> \o time \o <<SEC>>
  IN  [id |-> medication.id \o <<US>> \o scheduledTime,
       medicationId |-> medication.id,
       medicationName |-> medication.name,
       dosage |-> medication.dosage,
       scheduledTime |-> scheduledTime,
       completed |-> FALSE,
       actualTime |-> NULL,
       recordId |-> NULL]

ItemsOfFirstTimeOnly(medication, targetDate) ==
  IF IsInRange(medication, targetDate) /\ medication.times # <<>>
  THEN <<MakeScheduleItem(medication, targetDate, medication.times[1])>>
  ELSE <<>>

\* the inner forEach over medication.times
ItemsOf(medication, targetDate) ==
  IF IsInRange(medication, targetDate)
  THEN [i \in 1..Len(medication.times) |->
          MakeScheduleItem(medication, targetDate, medication.times[i])]
  ELSE <<>>

RECURSIVE CollectItems(_, _)
\* the outer forEach over medications, pushing onto scheduleItems
CollectItems(medications, targetDate) ==
  IF medications = <<>> THEN <<>>
  ELSE ItemsOf(Head(medications), targetDate)
         \o CollectItems(Tail(medications), targetDate)

GenerateUnsorted(medications, date) ==
  CollectItems(medications, FormatYMD(DayjsParse(date)))

GenerateForToday(medications, date) ==
  SortByScheduledTime(CollectItems(medications, FormatYMD(now)))

generateScheduleForDate(medications, date) ==
  SortByScheduledTime(CollectItems(medications, FormatYMD(DayjsParse(date))))

\* dayjs isSame(end, "day")
IsSameDay(a, b) == LocalDay(a) = LocalDay(b)

RangeContinuesStrict(currentDate, end) == currentDate < end

RangeContinuesSameInstant(currentDate, end) == currentDate <= end

\* the while condition
RangeContinues(currentDate, end) ==
  currentDate < end \/ IsSameDay(currentDate, end)

RECURSIVE RangeLoop(_, _, _, _)
RangeLoop(medications, currentDate, end, scheduleMap) ==
  IF RangeContinues(currentDate, end)
  THEN LET dateKey == FormatYMD(currentDate)
           withKey == [k \in DOMAIN scheduleMap \cup {dateKey} |->
                         IF k = dateKey
                         THEN generateScheduleForDate(medications, dateKey)
                         ELSE scheduleMap[k]]
       IN  RangeLoop(medications, currentDate + 24, end, withKey)
  ELSE scheduleMap

generateScheduleForRange(medications, startDate, endDate) ==
  RangeLoop(medications, DayjsParse(startDate), DayjsParse(endDate), <<>>)

-----------------------------------------------------------------------------
(* utils/scheduleUtils.ts: merge *)

RecordKeyTimeOnly(r) == r.scheduledTime

\* `${medicationId}_${scheduledTime}`, of a record and of an occurrence
RecordKey(r) == r.medicationId \o <<US>> \o r.scheduledTime

RECURSIVE FirstRecordWithKey(_, _)
FirstRecordWithKey(records, key) ==
  IF records = <<>> THEN <<>>
  ELSE IF RecordKey(Head(records)) = key THEN <<Head(records)>>
  ELSE FirstRecordWithKey(Tail(records), key)

RECURSIVE LastRecordWithKey(_, _)
\* recordMap.get(key) after the forEach of recordMap.set: the last record
\* with that key, <<>> when there is none
LastRecordWithKey(records, key) ==
  IF records = <<>> THEN <<>>
  ELSE IF RecordKey(records[Len(records)]) = key THEN <<records[Len(records)]>>
  ELSE LastRecordWithKey(SubSeq(records, 1, Len(records) - 1), key)

MergeDropsUnmatched(items, records) ==
  SelectSeq([i \in 1..Len(items) |->
               LET found == LastRecordWithKey(records, RecordKey(items[i]))
               IN  IF found # <<>>
                   THEN [items[i] EXCEPT !.completed = found[1].completed,
                                         !.actualTime = found[1].actualTime,
                                         !.recordId = found[1].id]
                   ELSE items[i]],
            LAMBDA item : LastRecordWithKey(records, RecordKey(item)) # <<>>)

MergeWithoutActualTime(items, records) ==
  [i \in 1..Len(items) |->
     LET found == LastRecordWithKey(records, RecordKey(items[i]))
     IN  IF found # <<>>
         THEN [items[i] EXCEPT !.completed = found[1].completed,
                               !.recordId = found[1].id]
         ELSE items[i]]

mergeScheduleWithRecords(items, records) ==
  [i \in 1..Len(items) |->
     LET found == LastRecordWithKey(records, RecordKey(items[i]))
     IN  IF found # <<>>
         THEN [items[i] EXCEPT !.completed = found[1].completed,
                               !.actualTime = found[1].actualTime,
                               !.recordId = found[1].id]
         ELSE items[i]]

-----------------------------------------------------------------------------
(* db/database.ts *)

MedId(i) == <<MEDPFX, US, i>>
RecId(i) == <<RECPFX, US, i>>
MedIds == {MedId(i) : i \in 1..MaxMeds}
RecIds == {RecId(i) : i \in 1..MaxRecs}

\* new Date().toISOString()
NowIso == UtcStr(now \div 24, now % 24)

\* the number of smaller keys, for each pair of a set of <<key, row>> pairs
KeyRanks(pairs) ==
  [p \in pairs |-> Cardinality({q \in pairs : StrLess(q[1], p[1])})]

\* the rows of a set of <<key, row>> pairs in ascending order of key (the
\* keys of a table or of an index entry are distinct)
InKeyOrder(pairs) ==
  CHOOSE rows \in {[k \in 1..Cardinality(pairs) |->
                      (CHOOSE p \in pairs : rank[p] = k - 1)[2]] :
                   rank \in {KeyRanks(pairs)}} : TRUE

\* toArray() of a collection on the primary key
ByPrimaryKey(rows) == InKeyOrder({<<row.id, row>> : row \in rows})

\* toArray() of a collection on the index scheduledTime: index order, the
\* primary key within equal index keys
ByScheduledTime(rows) ==
  InKeyOrder({<<row.scheduledTime \o row.id, row>> : row \in rows})

getAllMedications == ByPrimaryKey(dbMeds)

getMedicationById(id) == {m \in dbMeds : m.id = id}

ActiveOrEndingNow ==
  ByPrimaryKey({m \in dbMeds : m.endDate = NULL \/ StrLeq(NowIso, m.endDate)})

getActiveMedications ==
  ByPrimaryKey({m \in dbMeds : m.endDate = NULL \/ StrLess(NowIso, m.endDate)})

getRecordsByMedicationId(medicationId) ==
  {r \in dbRecs : r.medicationId = medicationId}

RecordsStrictlyBetween(startDate, endDate) ==
  ByScheduledTime({r \in dbRecs : /\ StrLess(startDate, r.scheduledTime)
                                  /\ StrLess(r.scheduledTime, endDate)})

getRecordsByDateRange(startDate, endDate) ==
  ByScheduledTime({r \in dbRecs : /\ StrLeq(startDate, r.scheduledTime)
                                  /\ StrLeq(r.scheduledTime, endDate)})

\* db.medications.add of createMedication; the add is rejected when the
\* primary key exists
CanAdd(rows, id) == \A row \in rows : row.id # id

NewMedication(input, id) ==
  [id |-> id, name |-> input.name, dosage |-> input.dosage,
   times |-> input.times, startDate |-> input.startDate,
   endDate |-> input.endDate, createdAt |-> NowIso, updatedAt |-> NowIso]

NewRecord(record, id) ==
  [id |-> id, medicationId |-> record.medicationId,
   scheduledTime |-> record.scheduledTime, actualTime |-> record.actualTime,
   completed |-> record.completed, createdAt |-> NowIso]

ChangesUpdatesLast(updates) == updates @@ [updatedAt |-> NowIso]

\* { ...updates, updatedAt: now }: a later key of an object literal wins
MedicationChanges(updates) == [updatedAt |-> NowIso] @@ updates

\* the fields whose values are arrays: a given array is never === the stored
ArrayFields == {"times"}

\* Table.update(key, changes) of Dexie on one row: each changed key path is
\* set, and the row is written only if some given value !== the stored one
ModifiedRow(row, changes) ==
  [f \in DOMAIN row |-> IF f \in DOMAIN changes THEN changes[f] ELSE row[f]]

AnythingModified(row, changes) ==
  \E f \in DOMAIN changes : f \in ArrayFields \/ row[f] # changes[f]

\* Table.update(key, changes): the table afterwards and the number of rows
\* written, 0 when no row has the key or when no value is changed
TableUpdate(rows, key, changes) ==
  LET written == {row \in rows : row.id = key /\ AnythingModified(row, changes)}
  IN  [rows  |-> {IF row \in written THEN ModifiedRow(row, changes) ELSE row :
                  row \in rows},
       count |-> Cardinality(written)]

updateMedication(id, updates) ==
  TableUpdate(dbMeds, id, MedicationChanges(updates))

MarkWithoutActualTime(id) == TableUpdate(dbRecs, id, [completed |-> TRUE])

markAsCompleted(id) ==
  TableUpdate(dbRecs, id, [completed |-> TRUE, actualTime |-> NowIso])

\* db.medicationRecords.update(id, updates)
UpdatedRecords(rows, id, updates) ==
  {IF r.id = id
   THEN [r EXCEPT !.completed = updates.completed,
                  !.actualTime = updates.actualTime]
   ELSE r : r \in rows}

\* single requests wait while the read-write transaction holds the tables
Unlocked == tx.pc = "idle"

IdleTx ==
  [pc |-> "idle", id |-> NULL, meds |-> {}, recs |-> {},
   beforeMeds |-> {}, beforeRecs |-> {}, outcome |-> "none"]

\* db.transaction("rw", db.medications, db.medicationRecords, ...)
TxStarted(id) ==
  [pc |-> "begun", id |-> id, meds |-> dbMeds, recs |-> dbRecs,
   beforeMeds |-> dbMeds, beforeRecs |-> dbRecs, outcome |-> "none"]

\* db.medications.delete(id) inside the transaction
TxAfterMedDelete(t) ==
  [t EXCEPT !.pc = "medDeleted", !.meds = {m \in t.meds : m.id # t.id}]

TxKeepsRecords(t) == [t EXCEPT !.pc = "recsDeleted"]

\* db.medicationRecords.where("medicationId").equals(id).delete()
TxAfterRecsDelete(t) ==
  [t EXCEPT !.pc = "recsDeleted",
            !.recs = {r \in t.recs : r.medicationId # t.id}]

WrittenThrough(t) == [meds |-> t.meds, recs |-> t.recs]

\* the rows of the two tables that requests outside the transaction are
\* served while it is in progress
TablesDuringTx(t) == [meds |-> t.beforeMeds, recs |-> t.beforeRecs]

PartlyApplied(t) == [meds |-> t.meds, recs |-> t.recs]

\* the rows of the two tables after the transaction has aborted
TablesAfterAbort(t) == [meds |-> t.beforeMeds, recs |-> t.beforeRecs]

TxFinished(t, outcome) == [t EXCEPT !.pc = "idle", !.outcome = outcome]

CreateByPut(medication, id) ==
  [meds |-> {m \in dbMeds : m.id # id} \cup {NewMedication(medication, id)},
   out |-> id, rejected |-> FALSE]

\* createMedication(medication) with id the generated id: db.medications.add
\* rejects (ConstraintError) when the key is already in the table
createMedication(medication, id) ==
  IF CanAdd(dbMeds, id)
  THEN [meds |-> dbMeds \cup {NewMedication(medication, id)},
        out |-> id, rejected |-> FALSE]
  ELSE [meds |-> dbMeds, out |-> NULL, rejected |-> TRUE]

DeleteEveryRecord(id) == [meds |-> {m \in dbMeds : m.id # id}, recs |-> {}]

\* deleteMedication(id) run to its commit: the two tables afterwards
deleteMedication(id) ==
  LET t == TxAfterRecsDelete(TxAfterMedDelete(TxStarted(id)))
  IN  [meds |-> t.meds, recs |-> t.recs]

-----------------------------------------------------------------------------
(* Number arithmetic of calculateAdherenceRate: IEEE 754 binary64, round   *)
(* to nearest, ties to even.  A significand is a sequence of MantissaBits  *)
(* bits, most significant first; a positive number is                      *)
(* [bits, scale] = (integer written by bits) / 2^scale.                     *)

MantissaBits == 53

\* NaN, told apart from every rate (no rate is negative)
NaN == -1

RECURSIVE BitsToNat(_)
BitsToNat(bits) ==
  IF bits = <<>> THEN 0
  ELSE 2 * BitsToNat(SubSeq(bits, 1, Len(bits) - 1)) + bits[Len(bits)]

RECURSIVE Reverse(_)
Reverse(seq) == IF seq = <<>> THEN <<>> ELSE Reverse(Tail(seq)) \o <<Head(seq)>>

RECURSIVE NatToBitsRev(_)
\* least significant bit first
NatToBitsRev(x) == IF x = 0 THEN <<>> ELSE <<x % 2>> \o NatToBitsRev(x \div 2)

RECURSIVE IncrementRev(_)
\* + 1 on bits given least significant first
IncrementRev(rev) ==
  IF rev = <<>> THEN <<1>>
  ELSE IF Head(rev) = 0 THEN <<1>> \o Tail(rev)
  ELSE <<0>> \o IncrementRev(Tail(rev))

Increment(bits) == Reverse(IncrementRev(Reverse(bits)))

\* the nearest number with MantissaBits significant bits to bits / 2^scale
\* plus a positive remainder: below (-1), at (0) or above (1) half a unit
RoundToMantissa(bits, scale, rest) ==
  LET up == rest = 1 \/ (rest = 0 /\ bits[Len(bits)] = 1)
      raised == IF up THEN Increment(bits) ELSE bits
  IN  IF Len(raised) > MantissaBits
      THEN [bits |-> SubSeq(raised, 1, MantissaBits), scale |-> scale - 1]
      ELSE [bits |-> raised, scale |-> scale]

RECURSIVE LeadingShift(_, _)
\* the least e with c * 2^e >= n
LeadingShift(c, n) == IF c >= n THEN 0 ELSE 1 + LeadingShift(2 * c, n)

RECURSIVE LongDivision(_, _, _, _)
\* count more quotient bits of r / n (r < n), then the remainder
LongDivision(r, n, count, bits) ==
  IF count = 0 THEN [bits |-> bits, r |-> r]
  ELSE IF 2 * r >= n
       THEN LongDivision(2 * r - n, n, count - 1, Append(bits, 1))
       ELSE LongDivision(2 * r, n, count - 1, Append(bits, 0))

RECURSIVE Power2(_)
Power2(e) == IF e = 0 THEN 1 ELSE 2 * Power2(e - 1)

\* c / n in binary64, for 0 < c < n
JsDivide(c, n) ==
  LET e == LeadingShift(c, n)
      q == LongDivision(c * Power2(e) - n, n, MantissaBits - 1, <<1>>)
      rest == IF 2 * q.r > n THEN 1 ELSE IF 2 * q.r = n THEN 0 ELSE -1
  IN  RoundToMantissa(q.bits, e + MantissaBits - 1, IF q.r = 0 THEN -1 ELSE rest)

RECURSIVE TimesRev(_, _, _)
\* bits (least significant first) times k, plus carry
TimesRev(rev, k, carry) ==
  IF rev = <<>> THEN NatToBitsRev(carry)
  ELSE LET v == Head(rev) * k + carry
       IN  <<v % 2>> \o TimesRev(Tail(rev), k, v \div 2)

\* x * k in binary64, for a small positive integer k
JsTimes(x, k) ==
  LET product == Reverse(TimesRev(Reverse(x.bits), k, 0))
      extra == Len(product) - MantissaBits
      dropped == SubSeq(product, MantissaBits + 1, Len(product))
      half == <<1>> \o [i \in 1..(extra - 1) |-> 0]
      rest == IF extra = 0 \/ \A i \in 1..extra : dropped[i] = 0 THEN -1
              ELSE IF dropped = half THEN 0
              ELSE IF dropped[1] = 1 THEN 1 ELSE -1
  IN  RoundToMantissa(SubSeq(product, 1, MantissaBits), x.scale - extra, rest)

\* Math.round(x): the nearest integer, a half goes up
MathRound(x) ==
  LET whole == Len(x.bits) - x.scale
  IN  IF whole < 0 THEN 0
      ELSE BitsToNat(SubSeq(x.bits, 1, whole))
             + (IF x.scale > 0 THEN x.bits[whole + 1] ELSE 0)

\* Math.round((completedCount / total) * 1000) for 0 <= completedCount <=
\* total: the result in tenths of a percent; 0 / 0 is NaN and stays NaN
RoundedPerMille(completedCount, total) ==
  IF total = 0 THEN NaN
  ELSE IF completedCount = 0 THEN 0
  ELSE IF completedCount = total THEN 1000
  ELSE MathRound(JsTimes(JsDivide(completedCount, total), 1000))

\* c / n in binary64, for c > 0 and n > 0
JsQuotient(c, n) ==
  IF c < n THEN JsDivide(c, n)
  ELSE LET whole == Reverse(NatToBitsRev(c \div n))
           q == LongDivision(c % n, n, MantissaBits - Len(whole), whole)
           rest == IF q.r = 0 THEN -1
                   ELSE IF 2 * q.r > n THEN 1
                   ELSE IF 2 * q.r = n THEN 0 ELSE -1
       IN  RoundToMantissa(q.bits, MantissaBits - Len(whole), rest)

\* the integer part of a positive number
Floor(x) ==
  LET whole == Len(x.bits) - x.scale
  IN  IF whole <= 0 THEN 0 ELSE BitsToNat(SubSeq(x.bits, 1, whole))

-----------------------------------------------------------------------------
(* utils/weatherUtils.ts *)

HIGH_TEMP_THRESHOLD == 30
HIGH_HUMIDITY_THRESHOLD == 80

\* a measured value is a number in tenths of a unit, or NaN; every
\* comparison with NaN is false
AtLeast(value, threshold) == value # NaN /\ value >= 10 * threshold
Below(value, threshold) == value # NaN /\ value < 10 * threshold

HighTemp == <<21>>
HighHumidity == <<22>>

\* checkWeatherAlerts(weather): the advisories, each with the value it shows
checkWeatherAlerts(weather) ==
  (IF AtLeast(weather.temperature, HIGH_TEMP_THRESHOLD)
   THEN <<[kind |-> HighTemp, value |-> weather.temperature]>> ELSE <<>>)
  \o
  (IF AtLeast(weather.humidity, HIGH_HUMIDITY_THRESHOLD)
   THEN <<[kind |-> HighHumidity, value |-> weather.humidity]>> ELSE <<>>)

GoodUpToThreshold(weather) ==
  /\ weather.temperature # NaN /\ weather.temperature <= 10 * HIGH_TEMP_THRESHOLD
  /\ weather.humidity # NaN /\ weather.humidity <= 10 * HIGH_HUMIDITY_THRESHOLD

isStorageEnvironmentGood(weather) ==
  LET tempIsOk == Below(weather.temperature, HIGH_TEMP_THRESHOLD)
      humidityIsOk == Below(weather.humidity, HIGH_HUMIDITY_THRESHOLD)
  IN  tempIsOk /\ humidityIsOk

\* 1000 * 60 * 60
MsPerHour == 3600000

DefaultMaxAgeHours == 24

StaleOnlyWhenOlder(nowMs, dataTime, maxAgeHours) ==
  nowMs - dataTime > maxAgeHours * MsPerHour

\* isWeatherDataStale(timestamp, maxAgeHours) at the instant nowMs, with
\* dataTime = new Date(timestamp).getTime(), both in milliseconds, and
\* maxAgeHours a positive integer: ageInHours >= maxAgeHours
isWeatherDataStale(nowMs, dataTime, maxAgeHours) ==
  LET timeDifference == nowMs - dataTime
  IN  IF timeDifference <= 0 THEN FALSE
      ELSE Floor(JsQuotient(timeDifference, MsPerHour)) >= maxAgeHours

-----------------------------------------------------------------------------
(* store/medicationStore.ts *)

IdleStore ==
  [medications |-> <<>>, records |-> <<>>, loading |-> FALSE, error |-> NULL]

ErrFetchMeds == <<11>>
ErrFetchActive == <<12>>
ErrAddMed == <<13>>
ErrDeleteMed == <<15>>
ErrFetchRecs == <<16>>
ErrAddRec == <<17>>
ErrEditRec == <<18>>

\* set({ loading: true, error: null })
Loading(s) == [s EXCEPT !.loading = TRUE, !.error = NULL]

\* set({ error: ..., loading: false })
Failed(s, message) == [s EXCEPT !.loading = FALSE, !.error = message]

IdleMgr == [pc |-> "idle", op |-> "none", id |-> NULL]

MgrError(op) ==
  IF op = "fetch" THEN ErrFetchMeds
  ELSE IF op = "add" THEN ErrAddMed
  ELSE ErrDeleteMed

NoItem ==
  [id |-> NULL, medicationId |-> NULL, medicationName |-> NULL,
   dosage |-> NULL, scheduledTime |-> NULL, completed |-> FALSE,
   actualTime |-> NULL, recordId |-> NULL]

IdleHandler ==
  [pc |-> "idle", item |-> NoItem, recId |-> NULL, fetchMeds |-> FALSE,
   from |-> NULL, to |-> NULL, gen |-> <<>>]

-----------------------------------------------------------------------------
(* Inputs of the generator runs *)

TimeLists == {<<>>, <<T20, T08>>, <<T12, T12>>}

\* (startDate, endDate) of a definition: open ended, a single day, and
\* instants that the local offset moves to a neighbouring day
Windows ==
  {<<DateOnly(2), NULL>>, <<DateOnly(2), DateOnly(2)>>,
   <<UtcStr(2, 0), UtcStr(2, 20)>>}

Definition(i, times, window) ==
  [id |-> MedId(i), name |-> <<NameBase + i>>, dosage |-> <<DoseBase + i>>,
   times |-> times, startDate |-> window[1], endDate |-> window[2]]

DefinitionsAt(i) ==
  {Definition(i, t, w) : t \in TimeLists, w \in Windows}

RECURSIVE DefinitionListsOfLen(_)
DefinitionListsOfLen(n) ==
  IF n = 0 THEN {<<>>}
  ELSE {Append(l, d) : l \in DefinitionListsOfLen(n - 1), d \in DefinitionsAt(n)}

DefinitionLists == UNION {DefinitionListsOfLen(n) : n \in 0..MaxDefs}

\* a date argument: a 'YYYY-MM-DD' string or a Date object (an instant)
DateInputs ==
  {DateOnly(d) : d \in Days} \cup {UtcStr(d, h) : d \in Days, h \in UtcHours}

-----------------------------------------------------------------------------
(* Generator runs: the arguments are drawn, then one of the two functions  *)
(* is applied to them.                                                      *)

InitGen ==
  /\ tz \in TzOffsets
  /\ gMeds \in DefinitionLists
  /\ gDate = NULL
  /\ gEnd = NULL
  /\ gOut = <<>>
  /\ gMap = <<>>
  /\ gPhase = "init"
  /\ now = 0
  /\ dbMeds = {}
  /\ dbRecs = {}
  /\ tx = IdleTx
  /\ store = IdleStore
  /\ mgr = IdleMgr
  /\ hs = [h \in 1..MaxHandlers |-> IdleHandler]
  /\ scheduleItems = <<>>
  /\ uiLoading = TRUE
  /\ nextMed = 0
  /\ nextRec = 0
  /\ faults = 0
  /\ effectLen = NotMounted
  /\ calls = <<>>

GenDate ==
  /\ gPhase = "init"
  /\ \E date \in DateInputs :
       /\ gDate' = date
       /\ gOut' = generateScheduleForDate(gMeds, date)
  /\ gPhase' = "date"
  /\ UNCHANGED <<tz, gMeds, gEnd, gMap, appVars>>

GenRange ==
  /\ gPhase = "init"
  /\ \E startDate \in DateInputs, endDate \in DateInputs :
       /\ gDate' = startDate
       /\ gEnd' = endDate
       /\ gMap' = generateScheduleForRange(gMeds, startDate, endDate)
  /\ gPhase' = "range"
  /\ UNCHANGED <<tz, gMeds, gOut, appVars>>

NextGen == GenDate \/ GenRange

SpecGen == InitGen /\ [][NextGen]_vars

-----------------------------------------------------------------------------
(* Claims about the generator *)

\* the calendar day a date value denotes: the day written in a date-only
\* string, the local day of an instant
CalendarDayOf(s) ==
  IF Len(s) = 1 THEN s[1] - DayBase
  ELSE IF s[Len(s)] = ZED THEN ((s[1] - DayBase) * 24 + (s[3] - TimeBase) + tz) \div 24
  ELSE s[1] - DayBase

DefinitionCoversDay(m, d) ==
  /\ CalendarDayOf(m.startDate) <= d
  /\ (m.endDate = NULL \/ d <= CalendarDayOf(m.endDate))

ItemsOfDefinition(items, m) ==
  {k \in 1..Len(items) : items[k].medicationId = m.id}

RECURSIVE SumLen(_, _)
SumLen(medications, d) ==
  IF medications = <<>> THEN 0
  ELSE (IF DefinitionCoversDay(Head(medications), d)
        THEN Len(Head(medications).times) ELSE 0)
       + SumLen(Tail(medications), d)

\* C5: a definition with a non-empty times list has occurrences in the
\* result for D if and only if startDate <= D and (endDate is null or
\* D <= endDate) as calendar dates, both boundaries included.
C5_InRangeIffBetweenDates ==
  gPhase = "date" =>
    \A i \in 1..Len(gMeds) :
      gMeds[i].times # <<>> =>
        (ItemsOfDefinition(gOut, gMeds[i]) # {}
           <=> DefinitionCoversDay(gMeds[i], CalendarDayOf(gDate)))

\* one definition is on its end day and has occurrences, another is one
\* day past its end day and has none
C5_Witness ==
  /\ gPhase = "date"
  /\ \E i \in 1..Len(gMeds) :
       /\ gMeds[i].endDate # NULL
       /\ CalendarDayOf(gMeds[i].endDate) = CalendarDayOf(gDate)
       /\ CalendarDayOf(gMeds[i].startDate) < CalendarDayOf(gDate)
       /\ ItemsOfDefinition(gOut, gMeds[i]) # {}
  /\ \E i \in 1..Len(gMeds) :
       /\ gMeds[i].times # <<>>
       /\ gMeds[i].endDate # NULL
       /\ CalendarDayOf(gMeds[i].endDate) + 1 = CalendarDayOf(gDate)
       /\ ItemsOfDefinition(gOut, gMeds[i]) = {}

\* the target day is one day before a definition's start day, and is the
\* start day of another
C5_StartWitness ==
  /\ gPhase = "date"
  /\ \E i \in 1..Len(gMeds) :
       /\ gMeds[i].times # <<>>
       /\ CalendarDayOf(gMeds[i].startDate) = CalendarDayOf(gDate) + 1
       /\ ItemsOfDefinition(gOut, gMeds[i]) = {}
  /\ \E i \in 1..Len(gMeds) :
       /\ CalendarDayOf(gMeds[i].startDate) = CalendarDayOf(gDate)
       /\ ItemsOfDefinition(gOut, gMeds[i]) # {}

\* C6: every in-range definition contributes one occurrence per entry of
\* its times list, with scheduledTime = D + 'T' + time + ':00'; the result
\* length is the sum of the list lengths; an empty list contributes nothing.
C6_OneOccurrencePerTime ==
  gPhase = "date" =>
    LET d == CalendarDayOf(gDate)
    IN  /\ Len(gOut) = SumLen(gMeds, d)
        /\ \A i \in 1..Len(gMeds) : \A time \in {T08, T12, T20} :
              Cardinality({k \in ItemsOfDefinition(gOut, gMeds[i]) :
                             gOut[k].scheduledTime
                               = DateOnly(d) \o <<TSEP>> \o time \o <<SEC>>})
                = IF DefinitionCoversDay(gMeds[i], d)
                  THEN Cardinality({j \in 1..Len(gMeds[i].times) :
                                      gMeds[i].times[j] = time})
                  ELSE 0

\* an in-range definition with two times next to an in-range one with none
C6_Witness ==
  /\ gPhase = "date"
  /\ Len(gOut) = 2
  /\ \E i, j \in 1..Len(gMeds) :
       /\ Len(gMeds[i].times) = 2
       /\ gMeds[j].times = <<>>
       /\ DefinitionCoversDay(gMeds[i], CalendarDayOf(gDate))
       /\ DefinitionCoversDay(gMeds[j], CalendarDayOf(gDate))

\* C7: every generated occurrence, of a single date or of a range, has
\* id = medicationId + '_' + scheduledTime and is not done: completed is
\* false, actualTime and recordId are null.
FreshOccurrence(item) ==
  /\ item.id = item.medicationId \o <<US>> \o item.scheduledTime
  /\ item.completed = FALSE
  /\ item.actualTime = NULL
  /\ item.recordId = NULL

C7_OccurrenceIdAndDefaults ==
  /\ \A k \in 1..Len(gOut) : FreshOccurrence(gOut[k])
  /\ \A key \in DOMAIN gMap :
       \A k \in 1..Len(gMap[key]) : FreshOccurrence(gMap[key][k])

\* a range of at least two days, each with occurrences
C7_Witness ==
  /\ gPhase = "range"
  /\ Cardinality({key \in DOMAIN gMap : Len(gMap[key]) >= 2}) >= 2

\* C8: the result of generateScheduleForDate is ascending by scheduledTime,
\* whatever the order of the definitions and of their times.
C8_SortedByScheduledTime ==
  gPhase = "date" =>
    \A k \in 1..(Len(gOut) - 1) :
      StrLeq(gOut[k].scheduledTime, gOut[k + 1].scheduledTime)

\* the occurrences were generated out of order and the sort moved them
C8_Witness ==
  /\ gPhase = "date"
  /\ Len(gOut) >= 3
  /\ gOut # GenerateUnsorted(gMeds, gDate)
  /\ \E k \in 1..(Len(gOut) - 1) :
       gOut[k].medicationId # gOut[k + 1].medicationId

\* C9: generateScheduleForRange(defs, d, d) is the mapping with the single
\* key d (as a calendar date) and the value generateScheduleForDate(defs, d).
C9_RangeOfOneDay ==
  (gPhase = "range" /\ gDate = gEnd) =>
    /\ DOMAIN gMap = {DateOnly(CalendarDayOf(gDate))}
    /\ gMap[DateOnly(CalendarDayOf(gDate))] = generateScheduleForDate(gMeds, gDate)

\* a one-day range given as an instant that the local offset moves to the
\* next day, with occurrences on that day
C9_Witness ==
  /\ gPhase = "range"
  /\ gDate = gEnd
  /\ Len(gDate) > 1
  /\ CalendarDayOf(gDate) # gDate[1] - DayBase
  /\ \E key \in DOMAIN gMap : Len(gMap[key]) >= 1

\* C10: the keys of generateScheduleForRange(defs, start, end) are exactly
\* the calendar days from start to end, both included (none when start is
\* a later day than end), and the value at each key is
\* generateScheduleForDate(defs, key).
C10_RangeKeysAndValues ==
  gPhase = "range" =>
    /\ DOMAIN gMap
         = {DateOnly(d) : d \in CalendarDayOf(gDate)..CalendarDayOf(gEnd)}
    /\ \A key \in DOMAIN gMap :
         gMap[key] = generateScheduleForDate(gMeds, key)

\* a range of three days whose start has a later time of day than its end
C10_Witness ==
  /\ gPhase = "range"
  /\ Cardinality(DOMAIN gMap) = 3
  /\ Len(gDate) > 1 /\ Len(gEnd) > 1
  /\ gDate[3] > gEnd[3]
  /\ \E key \in DOMAIN gMap : Len(gMap[key]) >= 1

\* a range whose start is a later day than its end has no key
C10_EmptyWitness ==
  /\ gPhase = "range"
  /\ CalendarDayOf(gDate) > CalendarDayOf(gEnd)
  /\ gMap = <<>>

-----------------------------------------------------------------------------
(* The application: the medications page (mgr) and the schedule list (hs)  *)
(* run their asynchronous handlers, which interleave at every await.  A    *)
(* storage request may fail (at most MaxFaults times in a behaviour).       *)

FormInputs ==
  {[name |-> <<NameBase + 1>>, dosage |-> <<DoseBase + 1>>,
    times |-> <<T08>>, startDate |-> DateOnly(1), endDate |-> NULL]}

\* getTodayDateString()
TargetDate == FormatYMD(now)

envVars == <<tz, now, genVars, calls>>

\* the outcomes of a storage request
Outcomes == IF faults < MaxFaults THEN {"ok", "fault"} ELSE {"ok"}

Counted(outcome) == faults' = IF outcome = "fault" THEN faults + 1 ELSE faults

Init ==
  /\ tz = 9
  /\ now = 2 * 24 + 12
  /\ gMeds = <<>>
  /\ gDate = NULL
  /\ gEnd = NULL
  /\ gOut = <<>>
  /\ gMap = <<>>
  /\ gPhase = "init"
  /\ dbMeds = {}
  /\ dbRecs = {}
  /\ tx = IdleTx
  /\ store = IdleStore
  /\ mgr = IdleMgr
  /\ hs = [h \in 1..MaxHandlers |-> IdleHandler]
  /\ scheduleItems = <<>>
  /\ uiLoading = TRUE
  /\ nextMed = 0
  /\ nextRec = 0
  /\ faults = 0
  /\ effectLen = NotMounted
  /\ calls = <<>>

(* ---- medications page: fetchMedications, addMedication, deleteMedication *)

\* fetchMedications up to its await
StartFetchMedications ==
  /\ mgr.pc = "idle"
  /\ mgr' = [pc |-> "fetchAll", op |-> "fetch", id |-> NULL]
  /\ store' = Loading(store)
  /\ UNCHANGED <<envVars, effectLen, dbMeds, dbRecs, tx, hs, scheduleItems, uiLoading,
                 nextMed, nextRec, faults>>

\* addMedication up to its await: createMedication has generated the id
StartAddMedication ==
  /\ mgr.pc = "idle"
  /\ nextMed < MaxMeds
  /\ nextMed' = nextMed + 1
  /\ mgr' = [pc |-> "create", op |-> "add", id |-> MedId(nextMed + 1)]
  /\ store' = Loading(store)
  /\ UNCHANGED <<envVars, effectLen, dbMeds, dbRecs, tx, hs, scheduleItems, uiLoading,
                 nextRec, faults>>

\* deleteMedication(medication.id) of a listed medication up to its await
StartDeleteMedication ==
  /\ mgr.pc = "idle"
  /\ \E k \in 1..Len(store.medications) :
       mgr' = [pc |-> "delete", op |-> "delete", id |-> store.medications[k].id]
  /\ store' = Loading(store)
  /\ UNCHANGED <<envVars, effectLen, dbMeds, dbRecs, tx, hs, scheduleItems, uiLoading,
                 nextMed, nextRec, faults>>

\* await createMedication(medication) settles
CreateMedicationDone ==
  /\ mgr.pc = "create"
  /\ Unlocked
  /\ \E input \in FormInputs, outcome \in Outcomes :
       /\ Counted(outcome)
       /\ IF outcome = "ok" /\ CanAdd(dbMeds, mgr.id)
          THEN /\ dbMeds' = dbMeds \cup {NewMedication(input, mgr.id)}
               /\ mgr' = [mgr EXCEPT !.pc = "fetchAll"]
               /\ store' = store
          ELSE /\ dbMeds' = dbMeds
               /\ mgr' = IdleMgr
               /\ store' = Failed(store, ErrAddMed)
  /\ UNCHANGED <<envVars, effectLen, dbRecs, tx, hs, scheduleItems, uiLoading,
                 nextMed, nextRec>>

\* await getAllMedications() settles
FetchAllDone ==
  /\ mgr.pc = "fetchAll"
  /\ Unlocked
  /\ \E outcome \in Outcomes :
       /\ Counted(outcome)
       /\ store' = IF outcome = "fault"
                   THEN Failed(store, MgrError(mgr.op))
                   ELSE [store EXCEPT !.medications = getAllMedications,
                                      !.loading = FALSE]
  /\ mgr' = IdleMgr
  /\ UNCHANGED <<envVars, effectLen, dbMeds, dbRecs, tx, hs, scheduleItems, uiLoading,
                 nextMed, nextRec>>

(* ---- db deleteMedication: the transaction, one step per request *)

TxBegin ==
  /\ mgr.pc = "delete"
  /\ Unlocked
  /\ tx' = TxStarted(mgr.id)
  /\ mgr' = [mgr EXCEPT !.pc = "deleting"]
  /\ UNCHANGED <<envVars, effectLen, dbMeds, dbRecs, store, hs, scheduleItems, uiLoading,
                 nextMed, nextRec, faults>>

TxDeleteMed ==
  /\ tx.pc = "begun"
  /\ tx' = TxAfterMedDelete(tx)
  /\ dbMeds' = TablesDuringTx(tx').meds
  /\ dbRecs' = TablesDuringTx(tx').recs
  /\ UNCHANGED <<envVars, effectLen, store, mgr, hs, scheduleItems,
                 uiLoading, nextMed, nextRec, faults>>

TxDeleteRecs ==
  /\ tx.pc = "medDeleted"
  /\ tx' = TxAfterRecsDelete(tx)
  /\ dbMeds' = TablesDuringTx(tx').meds
  /\ dbRecs' = TablesDuringTx(tx').recs
  /\ UNCHANGED <<envVars, effectLen, store, mgr, hs, scheduleItems,
                 uiLoading, nextMed, nextRec, faults>>

\* the transaction commits: both tables change together
TxCommit ==
  /\ tx.pc = "recsDeleted"
  /\ dbMeds' = tx.meds
  /\ dbRecs' = tx.recs
  /\ tx' = TxFinished(tx, "committed")
  /\ mgr' = [mgr EXCEPT !.pc = "fetchAll"]
  /\ UNCHANGED <<envVars, effectLen, store, hs, scheduleItems, uiLoading,
                 nextMed, nextRec, faults>>

\* a request of the transaction fails: it aborts and rolls back, the
\* promise of deleteMedication rejects and the store action catches it
TxAbort ==
  /\ tx.pc # "idle"
  /\ faults < MaxFaults
  /\ faults' = faults + 1
  /\ dbMeds' = TablesAfterAbort(tx).meds
  /\ dbRecs' = TablesAfterAbort(tx).recs
  /\ tx' = TxFinished(tx, "aborted")
  /\ mgr' = IdleMgr
  /\ store' = Failed(store, ErrDeleteMed)
  /\ UNCHANGED <<envVars, effectLen, hs, scheduleItems, uiLoading, nextMed, nextRec>>

(* ---- ScheduleList: loadSchedule and handleCheckboxChange *)

\* loadSchedule up to its first await, run by a handler whose closure saw
\* medications.length = 0 (fetchMeds) or not; s is the store at that moment
LoadStart(s, handler) ==
  IF handler.fetchMeds
  THEN [handler EXCEPT !.pc = "loadMeds"]
  ELSE [handler EXCEPT !.pc = "loadRecs",
                       !.gen = generateScheduleForDate(s.medications, TargetDate),
                       !.from = TargetDate \o StartOfDay,
                       !.to = TargetDate \o EndOfDay]

\* a handler slot is taken only when the slots below it are running
FreeSlot(h) ==
  /\ hs[h].pc = "idle"
  /\ \A g \in 1..(h - 1) : hs[g].pc # "idle"

\* useEffect(() => { loadSchedule() }, [loadSchedule]): on mount, and
\* after a render in which medications.length has changed
StartLoad(h) ==
  /\ FreeSlot(h)
  /\ effectLen # Len(store.medications)
  /\ effectLen' = Len(store.medications)
  /\ uiLoading' = TRUE
  /\ hs' = [hs EXCEPT ![h] =
              LoadStart(store, [IdleHandler EXCEPT
                                  !.fetchMeds = (Len(store.medications) = 0)])]
  /\ store' = Loading(store)
  /\ UNCHANGED <<envVars, dbMeds, dbRecs, tx, mgr, scheduleItems,
                 nextMed, nextRec, faults>>

\* await fetchActiveMedications() settles; loadSchedule runs on to the
\* call of fetchRecordsByDateRange
LoadMedsDone(h) ==
  /\ hs[h].pc = "loadMeds"
  /\ Unlocked
  /\ \E outcome \in Outcomes :
       LET fetched == IF outcome = "fault"
                      THEN Failed(store, ErrFetchActive)
                      ELSE [store EXCEPT !.medications = getActiveMedications,
                                         !.loading = FALSE]
       IN  /\ Counted(outcome)
           /\ hs' = [hs EXCEPT ![h] =
                       LoadStart(fetched, [hs[h] EXCEPT !.fetchMeds = FALSE])]
           /\ store' = Loading(fetched)
  /\ UNCHANGED <<envVars, effectLen, dbMeds, dbRecs, tx, mgr, scheduleItems, uiLoading,
                 nextMed, nextRec>>

\* await fetchRecordsByDateRange(startTime, endTime) settles; the merged
\* schedule is rendered
LoadRecsDone(h) ==
  /\ hs[h].pc = "loadRecs"
  /\ Unlocked
  /\ \E outcome \in Outcomes :
       LET records == IF outcome = "fault" THEN <<>>
                      ELSE getRecordsByDateRange(hs[h].from, hs[h].to)
       IN  /\ Counted(outcome)
           /\ store' = IF outcome = "fault"
                       THEN Failed(store, ErrFetchRecs)
                       ELSE [store EXCEPT !.records = records,
                                          !.loading = FALSE]
           /\ scheduleItems' = mergeScheduleWithRecords(hs[h].gen, records)
  /\ uiLoading' = FALSE
  /\ hs' = [hs EXCEPT ![h] = IdleHandler]
  /\ UNCHANGED <<envVars, effectLen, dbMeds, dbRecs, tx, mgr, nextMed, nextRec>>

\* onChange of the checkbox of a rendered item: handleCheckboxChange up to
\* its first await
CheckboxChange(h) ==
  /\ FreeSlot(h)
  /\ ~uiLoading
  /\ \E k \in 1..Len(scheduleItems) :
       LET item == scheduleItems[k]
           checked == ~item.completed
           handler == [IdleHandler EXCEPT
                         !.item = item,
                         !.fetchMeds = (Len(store.medications) = 0)]
       IN  IF item.recordId # NULL
           THEN /\ hs' = [hs EXCEPT ![h] =
                            [handler EXCEPT
                               !.pc = "editRec",
                               !.item.completed = checked,
                               !.item.actualTime =
                                  IF checked THEN NowIso ELSE NULL]]
                /\ store' = Loading(store)
                /\ UNCHANGED <<nextRec, uiLoading>>
           ELSE IF checked
           THEN /\ nextRec < MaxRecs
                /\ nextRec' = nextRec + 1
                /\ hs' = [hs EXCEPT ![h] =
                            [handler EXCEPT
                               !.pc = "addRec",
                               !.recId = RecId(nextRec + 1),
                               !.item.completed = TRUE,
                               !.item.actualTime = NowIso]]
                /\ store' = Loading(store)
                /\ UNCHANGED uiLoading
           ELSE /\ hs' = [hs EXCEPT ![h] = LoadStart(store, handler)]
                /\ store' = Loading(store)
                /\ uiLoading' = TRUE
                /\ UNCHANGED nextRec
  /\ UNCHANGED <<envVars, effectLen, dbMeds, dbRecs, tx, mgr, scheduleItems,
                 nextMed, faults>>

\* await createMedicationRecord(record) settles inside addRecord
AddRecordDone(h) ==
  /\ hs[h].pc = "addRec"
  /\ Unlocked
  /\ \E outcome \in Outcomes :
       /\ Counted(outcome)
       /\ IF outcome = "ok" /\ CanAdd(dbRecs, hs[h].recId)
          THEN /\ dbRecs' = dbRecs \cup {NewRecord(hs[h].item, hs[h].recId)}
               /\ hs' = [hs EXCEPT ![h] =
                           [@ EXCEPT
                              !.pc = "refetch",
                              !.from = <<hs[h].item.scheduledTime[1]>>
                                         \o StartOfDay,
                              !.to = <<hs[h].item.scheduledTime[1]>>
                                         \o EndOfDay]]
               /\ store' = store
               /\ UNCHANGED uiLoading
          ELSE /\ dbRecs' = dbRecs
               /\ hs' = [hs EXCEPT ![h] =
                           LoadStart(Failed(store, ErrAddRec), hs[h])]
               /\ store' = Loading(Failed(store, ErrAddRec))
               /\ uiLoading' = TRUE
  /\ UNCHANGED <<envVars, effectLen, dbMeds, tx, mgr, scheduleItems, nextMed, nextRec>>

\* the first and the last of currentRecords.map(r => r.scheduledTime).sort()
FirstScheduledTime(records) ==
  CHOOSE t \in {records[k].scheduledTime : k \in 1..Len(records)} :
    \A k \in 1..Len(records) : StrLeq(t, records[k].scheduledTime)

LastScheduledTime(records) ==
  CHOOSE t \in {records[k].scheduledTime : k \in 1..Len(records)} :
    \A k \in 1..Len(records) : StrLeq(records[k].scheduledTime, t)

\* await updateMedicationRecord(id, updates) settles inside editRecord
EditRecordDone(h) ==
  /\ hs[h].pc = "editRec"
  /\ Unlocked
  /\ \E outcome \in Outcomes :
       /\ Counted(outcome)
       /\ IF outcome = "ok"
          THEN /\ dbRecs' = UpdatedRecords(dbRecs, hs[h].item.recordId,
                                           hs[h].item)
               /\ IF Len(store.records) > 0
                  THEN /\ hs' = [hs EXCEPT ![h] =
                                   [@ EXCEPT
                                      !.pc = "refetch",
                                      !.from = FirstScheduledTime(store.records),
                                      !.to = LastScheduledTime(store.records)]]
                       /\ store' = store
                       /\ UNCHANGED uiLoading
                  ELSE /\ hs' = [hs EXCEPT ![h] = LoadStart(store, hs[h])]
                       /\ store' = Loading(store)
                       /\ uiLoading' = TRUE
          ELSE /\ dbRecs' = dbRecs
               /\ hs' = [hs EXCEPT ![h] =
                           LoadStart(Failed(store, ErrEditRec), hs[h])]
               /\ store' = Loading(Failed(store, ErrEditRec))
               /\ uiLoading' = TRUE
  /\ UNCHANGED <<envVars, effectLen, dbMeds, tx, mgr, scheduleItems, nextMed, nextRec>>

\* the fetchRecordsByDateRange of addRecord / editRecord settles, and
\* handleCheckboxChange goes on to loadSchedule
FetchAfterWriteDone(h) ==
  /\ hs[h].pc = "refetch"
  /\ Unlocked
  /\ \E outcome \in Outcomes :
       LET fetched == IF outcome = "fault"
                      THEN Failed(store, ErrFetchRecs)
                      ELSE [store EXCEPT
                              !.records = getRecordsByDateRange(hs[h].from,
                                                                hs[h].to),
                              !.loading = FALSE]
       IN  /\ Counted(outcome)
           /\ hs' = [hs EXCEPT ![h] = LoadStart(fetched, hs[h])]
           /\ store' = Loading(fetched)
  /\ uiLoading' = TRUE
  /\ UNCHANGED <<envVars, effectLen, dbMeds, dbRecs, tx, mgr, scheduleItems,
                 nextMed, nextRec>>

Next ==
  \/ StartFetchMedications
  \/ StartAddMedication
  \/ StartDeleteMedication
  \/ CreateMedicationDone
  \/ FetchAllDone
  \/ TxBegin
  \/ TxDeleteMed
  \/ TxDeleteRecs
  \/ TxCommit
  \/ TxAbort
  \/ \E h \in 1..MaxHandlers :
       \/ StartLoad(h)
       \/ LoadMedsDone(h)
       \/ LoadRecsDone(h)
       \/ CheckboxChange(h)
       \/ AddRecordDone(h)
       \/ EditRecordDone(h)
       \/ FetchAfterWriteDone(h)

Spec == Init /\ [][Next]_vars

-----------------------------------------------------------------------------
(* Claims about deleteMedication and the mark-done flow *)

RecordsOf(rows, id) == {r \in rows : r.medicationId = id}

TxEnds(outcome) ==
  /\ tx.pc # "idle"
  /\ tx'.pc = "idle"
  /\ tx'.outcome = outcome

\* the store as the readers find it once the call has returned
NothingLeftOf(id) ==
  /\ getMedicationById(id) = {}
  /\ getRecordsByMedicationId(id) = {}

\* C1: in the state in which deleteMedication(id) completes successfully,
\* getMedicationById(id) is absent and getRecordsByMedicationId(id) is
\* empty, whatever the tables held before.
C1_CascadeDeletePostcondition ==
  [][TxEnds("committed") => NothingLeftOf(tx.id)']_vars

\* a committed delete of a stored medication with two records
C1_Witness ==
  /\ tx.pc = "idle"
  /\ tx.outcome = "committed"
  /\ \E m \in tx.beforeMeds : m.id = tx.id
  /\ Cardinality(RecordsOf(tx.beforeRecs, tx.id)) = 2
  /\ NothingLeftOf(tx.id)

\* C2: while deleteMedication(id) is in progress the readers
\* (getMedicationById, getRecordsByMedicationId, getRecordsByDateRange)
\* find the medication and its records as they were before the call: never
\* the medication gone with its records left, nor the reverse.
C2_DeleteAtomicForReaders ==
  tx.pc # "idle" =>
    /\ getMedicationById(tx.id) = {m \in tx.beforeMeds : m.id = tx.id}
    /\ getRecordsByMedicationId(tx.id) = RecordsOf(tx.beforeRecs, tx.id)
    /\ getRecordsByDateRange(DateOnly(0), DateOnly(MaxDay + 1))
         = ByScheduledTime(tx.beforeRecs)

\* the transaction has deleted the medication and not yet its records
C2_Witness ==
  /\ tx.pc = "medDeleted"
  /\ \A m \in tx.meds : m.id # tx.id
  /\ RecordsOf(tx.recs, tx.id) # {}
  /\ getMedicationById(tx.id) # {}
  /\ getRecordsByMedicationId(tx.id) # {}

\* C3: when a step of deleteMedication(id) fails, the tables are left as
\* they were before the call and the caller gets one error; and no step
\* ever commits the deletion of a medication without that of its records.
C3_FailedDeleteChangesNothing ==
  [][/\ TxEnds("aborted") =>
          /\ dbMeds' = tx.beforeMeds
          /\ dbRecs' = tx.beforeRecs
          /\ store'.error = ErrDeleteMed
          /\ store'.loading = FALSE
          /\ mgr'.pc = "idle"
     /\ \A m \in dbMeds \ dbMeds' : RecordsOf(dbRecs', m.id) = {}]_vars

\* the delete of the records failed after the medication was deleted
C3_Witness ==
  /\ tx.pc = "idle"
  /\ tx.outcome = "aborted"
  /\ \A m \in tx.meds : m.id # tx.id
  /\ RecordsOf(tx.recs, tx.id) # {}
  /\ getMedicationById(tx.id) # {}
  /\ getRecordsByMedicationId(tx.id) = RecordsOf(tx.beforeRecs, tx.id)
  /\ store.error = ErrDeleteMed

\* C4: in every state reached through handleCheckboxChange, addRecord /
\* editRecord and loadSchedule there is at most one record per
\* (medicationId, scheduledTime).
C4_AtMostOneRecordPerOccurrence ==
  \A r1, r2 \in dbRecs :
    (r1.medicationId = r2.medicationId /\ r1.scheduledTime = r2.scheduledTime)
      => r1 = r2

-----------------------------------------------------------------------------
(* Calls of the exported functions on drawn arguments.  Every call is      *)
(* appended to calls with its arguments and its result.                     *)

QuietGen ==
  /\ gMeds = <<>>
  /\ gDate = NULL
  /\ gEnd = NULL
  /\ gOut = <<>>
  /\ gMap = <<>>
  /\ gPhase = "init"

QuietApp ==
  /\ tx = IdleTx
  /\ store = IdleStore
  /\ mgr = IdleMgr
  /\ hs = [h \in 1..MaxHandlers |-> IdleHandler]
  /\ scheduleItems = <<>>
  /\ uiLoading = TRUE
  /\ nextMed = 0
  /\ nextRec = 0
  /\ faults = 0
  /\ effectLen = NotMounted

quietVars ==
  <<tx, store, mgr, hs, scheduleItems, uiLoading, nextMed, faults, effectLen>>

\* the clock advances by a day
ClockTick ==
  /\ now \div 24 < MaxDay
  /\ now' = now + 24
  /\ UNCHANGED <<tz, genVars, dbMeds, dbRecs, quietVars, nextRec, calls>>

\* createMedicationRecord, called by some other part of the application
RecordStored ==
  /\ nextRec < MaxRecs
  /\ nextRec' = nextRec + 1
  /\ dbRecs' = dbRecs \cup
       {NewRecord([medicationId |-> MedId(1),
                   scheduledTime |-> LocalStr(2, 8),
                   actualTime |-> NULL, completed |-> FALSE],
                  RecId(nextRec + 1))}
  /\ UNCHANGED <<tz, now, genVars, dbMeds, quietVars, calls>>

(* ---- generateScheduleForDate called twice in one execution *)

TwiceLists ==
  {l \in DefinitionListsOfLen(2) :
     /\ l[1].times = <<T20, T08>>
     /\ l[2].times = <<T12, T12>>
     /\ l[1].endDate = l[2].endDate}

InitTwice ==
  /\ tz \in TzOffsets
  /\ now = 0
  /\ dbMeds = {}
  /\ dbRecs = {}
  /\ calls = <<>>
  /\ QuietApp
  /\ gMeds \in TwiceLists
  /\ gDate = NULL
  /\ gEnd = NULL
  /\ gOut = <<>>
  /\ gMap = <<>>
  /\ gPhase = "init"

GenerateCall(medications, date) ==
  [op |-> "generateScheduleForDate", medications |-> medications,
   date |-> date, at |-> now, stored |-> dbRecs,
   out |-> generateScheduleForDate(medications, date)]

CallGenerate ==
  /\ calls = <<>>
  /\ \E date \in DateInputs : calls' = <<GenerateCall(gMeds, date)>>
  /\ UNCHANGED <<tz, now, genVars, dbMeds, dbRecs, quietVars, nextRec>>

\* the same call again, later in the execution
CallGenerateAgain ==
  /\ calls # <<>>
  /\ Len(calls) < MaxCalls
  /\ calls' = Append(calls, GenerateCall(calls[1].medications, calls[1].date))
  /\ UNCHANGED <<tz, now, genVars, dbMeds, dbRecs, quietVars, nextRec>>

NextTwice == ClockTick \/ RecordStored \/ CallGenerate \/ CallGenerateAgain

SpecTwice == InitTwice /\ [][NextTwice]_vars

SharedTimeItems ==
  generateScheduleForDate(
    <<Definition(1, <<T20, T08>>, <<DateOnly(1), NULL>>),
      Definition(2, <<T08>>, <<DateOnly(1), NULL>>)>>, DateOnly(2))

RepeatedTimeItems ==
  generateScheduleForDate(
    <<Definition(1, <<T12, T12>>, <<DateOnly(1), NULL>>)>>, DateOnly(2))

\* occurrences that carry the fields of a record already
OverlaidItems ==
  [SharedTimeItems EXCEPT ![1].completed = TRUE,
                          ![1].actualTime = UtcStr(2, 9),
                          ![1].recordId = RecId(MaxMergeRecs + 1)]

ItemLists == {<<>>, SharedTimeItems, RepeatedTimeItems, OverlaidItems}

\* the k-th record of a list
MergeRecord(k, medicationId, scheduledTime, completed) ==
  [id |-> RecId(k), medicationId |-> medicationId,
   scheduledTime |-> scheduledTime,
   actualTime |-> IF completed THEN UtcStr(2, 10 + k) ELSE NULL,
   completed |-> completed, createdAt |-> UtcStr(2, 10 + k)]

MergeRecordsAt(k) ==
  {MergeRecord(k, MedId(i), t, c) :
     i \in 1..2, t \in {LocalStr(2, 8), LocalStr(2, 12), LocalStr(1, 8)},
     c \in BOOLEAN}

RECURSIVE RecordListsOfLen(_)
RecordListsOfLen(n) ==
  IF n = 0 THEN {<<>>}
  ELSE {Append(l, r) : l \in RecordListsOfLen(n - 1), r \in MergeRecordsAt(n)}

RecordLists == UNION {RecordListsOfLen(n) : n \in 0..MaxMergeRecs}

InitMerge ==
  /\ tz = 0
  /\ now = 0
  /\ dbMeds = {}
  /\ dbRecs = {}
  /\ calls = <<>>
  /\ QuietApp
  /\ QuietGen

CallMerge ==
  /\ calls = <<>>
  /\ \E items \in ItemLists, records \in RecordLists :
       calls' = <<[op |-> "mergeScheduleWithRecords", items |-> items,
                   records |-> records,
                   out |-> mergeScheduleWithRecords(items, records)]>>
  /\ UNCHANGED <<tz, now, genVars, dbMeds, dbRecs, quietVars, nextRec>>

NextMerge == CallMerge

SpecMerge == InitMerge /\ [][NextMerge]_vars

MergeCalls == {k \in 1..Len(calls) : calls[k].op = "mergeScheduleWithRecords"}

\* the positions of the records with the pair (medicationId, scheduledTime)
\* of an occurrence
Matching(records, item) ==
  {k \in 1..Len(records) :
     /\ records[k].medicationId = item.medicationId
     /\ records[k].scheduledTime = item.scheduledTime}

\* C12: mergeScheduleWithRecords(occurrences, []) equals occurrences,
\* element by element and field by field.
C12_MergeWithNoRecords ==
  \A c \in MergeCalls :
    calls[c].records = <<>> => calls[c].out = calls[c].items

\* no records, and occurrences both fresh and already overlaid
C12_Witness ==
  /\ calls # <<>>
  /\ calls[1].records = <<>>
  /\ Len(calls[1].items) = 3
  /\ calls[1].items[1].completed
  /\ ~calls[1].items[2].completed
  /\ calls[1].items[2].recordId = NULL
  /\ calls[1].out = calls[1].items

(* ---- mergeScheduleWithRecords on any strings: medication ids with a   *)
(* second '_' and a scheduledTime that contains '_'                        *)

LongId == MedId(1) \o <<US, 7>>

UnderscoredTime == <<7, US>> \o LocalStr(2, 8)

LongIdItems ==
  generateScheduleForDate(
    <<[Definition(1, <<T08>>, <<DateOnly(1), NULL>>) EXCEPT !.id = LongId]>>,
    DateOnly(2))

AnyItemLists == ItemLists \cup {LongIdItems}

AnyRecordsAt(k) ==
  MergeRecordsAt(k)
    \cup {MergeRecord(k, MedId(1), UnderscoredTime, c) : c \in BOOLEAN}

RECURSIVE AnyRecordListsOfLen(_)
AnyRecordListsOfLen(n) ==
  IF n = 0 THEN {<<>>}
  ELSE {Append(l, r) : l \in AnyRecordListsOfLen(n - 1), r \in AnyRecordsAt(n)}

AnyRecordLists == UNION {AnyRecordListsOfLen(n) : n \in 0..MaxMergeRecs}

CallMergeAny ==
  /\ calls = <<>>
  /\ \E items \in AnyItemLists, records \in AnyRecordLists :
       calls' = <<[op |-> "mergeScheduleWithRecords", items |-> items,
                   records |-> records,
                   out |-> mergeScheduleWithRecords(items, records)]>>
  /\ UNCHANGED <<tz, now, genVars, dbMeds, dbRecs, quietVars, nextRec>>

NextMergeAny == CallMergeAny

SpecMergeAny == InitMerge /\ [][NextMergeAny]_vars

HasUnderscore(str) == \E k \in DOMAIN str : str[k] = US

\* the positions of the records (M, T) for which M + '_' + T is the id of
\* an occurrence
Keyed(records, item) ==
  {k \in 1..Len(records) :
     records[k].medicationId \o <<US>> \o records[k].scheduledTime = item.id}

C13_EqualPairWitness ==
  /\ calls # <<>>
  /\ calls[1].items = SharedTimeItems
  /\ Len(calls[1].records) = 1
  /\ calls[1].records[1].medicationId = MedId(2)
  /\ calls[1].records[1].scheduledTime = LocalStr(2, 8)
  /\ \E i, j \in 1..3 :
       /\ calls[1].items[i].medicationId = MedId(1)
       /\ calls[1].items[i].scheduledTime = LocalStr(2, 8)
       /\ calls[1].out[i] = calls[1].items[i]
       /\ calls[1].items[j].medicationId = MedId(2)
       /\ calls[1].out[j].recordId = RecId(1)

\* C14: the result has the length and the order of the occurrence list; at
\* each position id, medicationId, medicationName, dosage and scheduledTime
\* are those of the input, and completed, actualTime and recordId are those
\* of a matching record (recordId its id) when there is one, else those of
\* the input.
C14_MergeKeepsShapeAndCopiesFields ==
  \A c \in MergeCalls :
    /\ Len(calls[c].out) = Len(calls[c].items)
    /\ \A i \in 1..Len(calls[c].items) :
         LET item == calls[c].items[i]
             out == calls[c].out[i]
             matching == Matching(calls[c].records, item)
         IN  /\ out.id = item.id
             /\ out.medicationId = item.medicationId
             /\ out.medicationName = item.medicationName
             /\ out.dosage = item.dosage
             /\ out.scheduledTime = item.scheduledTime
             /\ IF matching = {}
                THEN /\ out.completed = item.completed
                     /\ out.actualTime = item.actualTime
                     /\ out.recordId = item.recordId
                ELSE \E k \in matching :
                       /\ out.completed = calls[c].records[k].completed
                       /\ out.actualTime = calls[c].records[k].actualTime
                       /\ out.recordId = calls[c].records[k].id

\* the second of three occurrences takes a completed record, the first was
\* overlaid before and keeps its fields
C14_Witness ==
  /\ calls # <<>>
  /\ calls[1].items = OverlaidItems
  /\ Len(calls[1].records) = 1
  /\ calls[1].out[1] = calls[1].items[1]
  /\ calls[1].out[2].completed
  /\ calls[1].out[2].actualTime = calls[1].records[1].actualTime
  /\ calls[1].out[2].actualTime # NULL
  /\ calls[1].out[2].recordId = RecId(1)
  /\ calls[1].out[3] = calls[1].items[3]

Last(S) == CHOOSE k \in S : \A j \in S : j <= k

\* C15: when several records have the (medicationId, scheduledTime) of an
\* occurrence, the occurrence takes completed, actualTime and recordId from
\* the last of them in the list; the result still has one occurrence per
\* input occurrence.
C15_MergeLastRecordWins ==
  \A c \in MergeCalls :
    /\ Len(calls[c].out) = Len(calls[c].items)
    /\ \A i \in 1..Len(calls[c].items) :
         LET matching == Matching(calls[c].records, calls[c].items[i])
         IN  matching # {} =>
               LET last == calls[c].records[Last(matching)]
               IN  /\ calls[c].out[i].completed = last.completed
                   /\ calls[c].out[i].actualTime = last.actualTime
                   /\ calls[c].out[i].recordId = last.id

\* two records for one occurrence, the first completed and the last not
C15_Witness ==
  /\ calls # <<>>
  /\ Len(calls[1].records) = 2
  /\ \E i \in 1..Len(calls[1].items) :
       /\ Matching(calls[1].records, calls[1].items[i]) = {1, 2}
       /\ calls[1].records[1].completed
       /\ ~calls[1].records[2].completed
       /\ calls[1].out[i].recordId = RecId(2)
       /\ ~calls[1].out[i].completed
  /\ Len(calls[1].out) = Len(calls[1].items)

-----------------------------------------------------------------------------
(* getRecordsByDateRange and calculateAdherenceRate called on drawn tables *)

CompletedCount(records) ==
  Cardinality({k \in 1..Len(records) : records[k].completed})

AdherenceWithoutGuard(startDate, endDate) ==
  LET records == getRecordsByDateRange(startDate, endDate)
  IN  RoundedPerMille(CompletedCount(records), Len(records))

\* the returned rate in tenths of a percent
calculateAdherenceRate(startDate, endDate) ==
  LET records == getRecordsByDateRange(startDate, endDate)
  IN  IF Len(records) = 0 THEN 0
      ELSE RoundedPerMille(CompletedCount(records), Len(records))

StoredRecord(k, i, scheduledTime, completed) ==
  [id |-> RecId(k), medicationId |-> MedId(i), scheduledTime |-> scheduledTime,
   actualTime |-> IF completed THEN UtcStr(3, 20) ELSE NULL,
   completed |-> completed, createdAt |-> UtcStr(3, 20)]

SmallTables ==
  SUBSET {StoredRecord(1, 1, LocalStr(1, 8), TRUE),
          StoredRecord(2, 1, LocalStr(2, 8), TRUE),
          StoredRecord(3, 1, LocalStr(2, 20), FALSE),
          StoredRecord(4, 2, LocalStr(2, 8), FALSE),
          StoredRecord(5, 1, LocalStr(3, 8), TRUE)}

\* one record a day for total days, the first completedCount of them done
BigTable(total, completedCount) ==
  {StoredRecord(k, 1, LocalStr(k, 8), k <= completedCount) : k \in 1..total}

RecordTables == SmallTables \cup {BigTable(BigCount, BigCount \div 2 + 1)}

WindowEnds ==
  {LocalStr(1, 8), LocalStr(2, 8), LocalStr(2, 20), LocalStr(3, 8),
   DateOnly(2) \o StartOfDay, DateOnly(2) \o EndOfDay}

RangeWindows ==
  (WindowEnds \X WindowEnds) \cup {<<LocalStr(1, 8), LocalStr(BigCount, 8)>>}

InitRecs ==
  /\ tz = 0
  /\ now = 4 * 24
  /\ dbMeds = {}
  /\ dbRecs \in RecordTables
  /\ calls = <<>>
  /\ QuietApp
  /\ QuietGen

CallRange ==
  /\ calls = <<>>
  /\ \E w \in RangeWindows :
       calls' = <<[op |-> "getRecordsByDateRange", startDate |-> w[1],
                   endDate |-> w[2],
                   out |-> getRecordsByDateRange(w[1], w[2])]>>
  /\ UNCHANGED <<tz, now, genVars, dbMeds, dbRecs, quietVars, nextRec>>

CallRate ==
  /\ calls = <<>>
  /\ \E w \in RangeWindows :
       calls' = <<[op |-> "calculateAdherenceRate", startDate |-> w[1],
                   endDate |-> w[2],
                   out |-> calculateAdherenceRate(w[1], w[2])]>>
  /\ UNCHANGED <<tz, now, genVars, dbMeds, dbRecs, quietVars, nextRec>>

NextRecs == CallRange \/ CallRate

SpecRecs == InitRecs /\ [][NextRecs]_vars

CallsOf(op) == {k \in 1..Len(calls) : calls[k].op = op}

\* the stored records with startDate <= scheduledTime <= endDate
InWindow(startDate, endDate) ==
  {r \in dbRecs : /\ StrLeq(startDate, r.scheduledTime)
                  /\ StrLeq(r.scheduledTime, endDate)}

\* C16: calculateAdherenceRate(start, end) returns 0 when no record has its
\* scheduledTime in [start, end]; it does not return NaN.
C16_RateOfEmptyWindowIsZero ==
  \A c \in CallsOf("calculateAdherenceRate") :
    /\ calls[c].out # NaN
    /\ InWindow(calls[c].startDate, calls[c].endDate) = {} => calls[c].out = 0

\* records are stored, none of them in the window start <= end
C16_Witness ==
  /\ calls # <<>>
  /\ calls[1].op = "calculateAdherenceRate"
  /\ StrLess(calls[1].startDate, calls[1].endDate)
  /\ Cardinality(dbRecs) >= 3
  /\ \E r \in dbRecs : r.completed
  /\ InWindow(calls[1].startDate, calls[1].endDate) = {}
  /\ calls[1].out = 0

\* round(completedCount * 1000 / total), a half going up
RatioExact(completedCount, total) ==
  (2000 * completedCount + total) \div (2 * total)

\* C17: with at least one record in the window, calculateAdherenceRate
\* returns round(completedCount * 1000 / totalCount) / 10 over the stored
\* records of the window; the per-mille value is in 0..1000, it is 1000
\* exactly when every record of the window is completed and 0 exactly when
\* the ratio rounds down to 0.
C17_RateIsRoundedRatio ==
  \A c \in CallsOf("calculateAdherenceRate") :
    LET window == InWindow(calls[c].startDate, calls[c].endDate)
        total == Cardinality(window)
        completedCount == Cardinality({r \in window : r.completed})
    IN  total > 0 =>
          /\ calls[c].out = RatioExact(completedCount, total)
          /\ calls[c].out \in 0..1000
          /\ calls[c].out = 1000 <=> completedCount = total
          /\ calls[c].out = 0 <=> 2000 * completedCount < total

\* C18: getRecordsByDateRange(start, end) returns exactly the stored
\* records with start <= scheduledTime <= end in string order, those at
\* start and at end included, each once.
C18_RangeIsInclusive ==
  \A c \in CallsOf("getRecordsByDateRange") :
    LET out == calls[c].out
    IN  /\ {out[k] : k \in 1..Len(out)}
             = InWindow(calls[c].startDate, calls[c].endDate)
        /\ Len(out) = Cardinality(InWindow(calls[c].startDate, calls[c].endDate))

\* a record at start, one at end, one before start and one after end
C18_Witness ==
  /\ calls # <<>>
  /\ calls[1].op = "getRecordsByDateRange"
  /\ StrLess(calls[1].startDate, calls[1].endDate)
  /\ \E k \in 1..Len(calls[1].out) :
       calls[1].out[k].scheduledTime = calls[1].startDate
  /\ \E k \in 1..Len(calls[1].out) :
       calls[1].out[k].scheduledTime = calls[1].endDate
  /\ \E r \in dbRecs : StrLess(r.scheduledTime, calls[1].startDate)
  /\ \E r \in dbRecs : StrLess(calls[1].endDate, r.scheduledTime)

-----------------------------------------------------------------------------
(* updateMedication and getActiveMedications called on drawn tables *)

EndDates == {NULL, DateOnly(2), UtcStr(2, 0), UtcStr(2, 20), DateOnly(3)}

StoredMedication(i, endDate) ==
  [id |-> MedId(i), name |-> <<NameBase + i>>, dosage |-> <<DoseBase + i>>,
   times |-> <<T08>>, startDate |-> DateOnly(1), endDate |-> endDate,
   createdAt |-> UtcStr(1, 0), updatedAt |-> UtcStr(1, 0)]

MedicationTables ==
  {first \cup second :
     first \in {{}} \cup {{StoredMedication(1, e)} : e \in EndDates},
     second \in {{}, {StoredMedication(2, NULL)}}}

\* MedId(3) is the id of no stored medication
UpdateIds == {MedId(1), MedId(2), MedId(3)}

UpdateInputs ==
  {[name |-> <<NameBase + 1>>],
   [name |-> <<NameBase + 9>>, dosage |-> <<DoseBase + 9>>],
   [endDate |-> DateOnly(2), updatedAt |-> UtcStr(0, 0)],
   [times |-> <<T08>>]}

InitMeds ==
  /\ tz = 0
  /\ now \in {24 + h : h \in UtcHours} \cup {48 + h : h \in UtcHours}
  /\ dbMeds \in MedicationTables
  /\ dbRecs = {}
  /\ calls = <<>>
  /\ QuietApp
  /\ QuietGen

CallUpdate ==
  /\ Len(calls) < MaxCalls
  /\ \E id \in UpdateIds, updates \in UpdateInputs :
       LET result == updateMedication(id, updates)
       IN  /\ dbMeds' = result.rows
           /\ calls' = Append(calls,
                [op |-> "updateMedication", id |-> id, updates |-> updates,
                 at |-> NowIso, before |-> dbMeds, after |-> result.rows,
                 out |-> result.count])
  /\ UNCHANGED <<tz, now, genVars, dbRecs, quietVars, nextRec>>

CallActive ==
  /\ Len(calls) < MaxCalls
  /\ calls' = Append(calls,
       [op |-> "getActiveMedications", at |-> now, stored |-> dbMeds,
        out |-> getActiveMedications])
  /\ UNCHANGED <<tz, now, genVars, dbMeds, dbRecs, quietVars, nextRec>>

NextMeds == CallUpdate \/ CallActive \/ ClockTick

SpecMeds == InitMeds /\ [][NextMeds]_vars

\* the stored row is the one before with the given fields replaced and
\* updatedAt the instant of the call; every other row is as before
UpdateApplied(call, m) ==
  \E m2 \in call.after :
    /\ call.after \ {m2} = call.before \ {m}
    /\ \A f \in DOMAIN call.updates \ {"updatedAt"} : m2[f] = call.updates[f]
    /\ m2.updatedAt = call.at
    /\ \A f \in DOMAIN m \ (DOMAIN call.updates \cup {"updatedAt"}) :
         m2[f] = m[f]
    /\ m2.id = m.id
    /\ m2.createdAt = m.createdAt

UpdateOfAbsent(call) ==
  /\ call.out = 0
  /\ call.after = call.before

\* C19 as stated: updateMedication(id, fields) on a stored id replaces the
\* given fields, sets updatedAt to the current instant, leaves id and
\* createdAt, and returns 1; on an absent id it returns 0 and changes nothing.
C19_UpdateReturnsOneWhenFound ==
  \A c \in CallsOf("updateMedication") :
    LET found == {m \in calls[c].before : m.id = calls[c].id}
    IN  IF found = {} THEN UpdateOfAbsent(calls[c])
        ELSE \A m \in found : UpdateApplied(calls[c], m) /\ calls[c].out = 1

\* C19: updateMedication(id, fields) on a stored id replaces the given
\* fields, sets updatedAt to the current instant, leaves id and createdAt,
\* and returns the number of rows written: 1, or 0 when no given value
\* differs from the stored one (no array given, every given value and the
\* current instant already stored); on an absent id it returns 0 and
\* changes nothing.
C19_UpdateReturnsRowsWritten ==
  \A c \in CallsOf("updateMedication") :
    LET found == {m \in calls[c].before : m.id = calls[c].id}
    IN  IF found = {} THEN UpdateOfAbsent(calls[c])
        ELSE \A m \in found :
               /\ UpdateApplied(calls[c], m)
               /\ calls[c].out \in {0, 1}
               /\ calls[c].out = 0 <=>
                    /\ calls[c].after = calls[c].before
                    /\ DOMAIN calls[c].updates \cap ArrayFields = {}

\* one update of a stored medication that changes its name at a later instant
\* than its creation, and one of an id that is not stored
C19_Witness ==
  /\ Len(calls) = 2
  /\ calls[1].op = "updateMedication"
  /\ calls[2].op = "updateMedication"
  /\ \E m \in calls[1].before :
       /\ m.id = calls[1].id
       /\ "name" \in DOMAIN calls[1].updates
       /\ m.name # calls[1].updates.name
       /\ m.updatedAt # calls[1].at
  /\ calls[1].out = 1
  /\ calls[2].before # {}
  /\ \A m \in calls[2].before : m.id # calls[2].id
  /\ calls[2].out = 0

\* the instant an endDate string denotes, in hours
EndInstant(endDate) ==
  IF Len(endDate) = 1 THEN 24 * (endDate[1] - DayBase)
  ELSE 24 * (endDate[1] - DayBase) + (endDate[3] - TimeBase)

\* C20: getActiveMedications returns exactly the stored definitions whose
\* endDate is null or strictly later than the current instant, each once.
C20_ActiveIffNoEndOrLaterEnd ==
  \A c \in CallsOf("getActiveMedications") :
    LET out == calls[c].out
    IN  /\ {out[k] : k \in 1..Len(out)}
             = {m \in calls[c].stored :
                  m.endDate = NULL \/ EndInstant(m.endDate) > calls[c].at}
        /\ \A j, k \in 1..Len(out) : out[j] = out[k] => j = k

\* one definition without an end is returned and one whose endDate is the
\* current instant is not
C20_Witness ==
  /\ calls # <<>>
  /\ calls[1].op = "getActiveMedications"
  /\ \E m \in calls[1].stored :
       /\ m.endDate # NULL
       /\ Len(m.endDate) > 1
       /\ EndInstant(m.endDate) = calls[1].at
  /\ Len(calls[1].out) = 1
  /\ calls[1].out[1].endDate = NULL

-----------------------------------------------------------------------------
(* markAsCompleted called on drawn tables *)

\* RecId(6) is the id of no stored record
MarkIds == {RecId(k) : k \in 1..6}

\* the instant at which the stored records were written, and later ones
MarkInstants == {3 * 24 + 20, 4 * 24, 4 * 24 + 20}

InitMark ==
  /\ tz = 0
  /\ now \in MarkInstants
  /\ dbMeds = {}
  /\ dbRecs \in SmallTables
  /\ calls = <<>>
  /\ QuietApp
  /\ QuietGen

CallMark ==
  /\ Len(calls) < MaxCalls
  /\ \E id \in MarkIds :
       LET result == markAsCompleted(id)
       IN  /\ dbRecs' = result.rows
           /\ calls' = Append(calls,
                [op |-> "markAsCompleted", id |-> id, at |-> NowIso,
                 before |-> dbRecs, after |-> result.rows,
                 out |-> result.count])
  /\ UNCHANGED <<tz, now, genVars, dbMeds, quietVars, nextRec>>

NextMark == CallMark

SpecMark == InitMark /\ [][NextMark]_vars

\* C21: markAsCompleted(id) on a stored record sets completed = true and
\* actualTime = now (not null) and leaves its id, medicationId, scheduledTime
\* and createdAt and every other record unchanged; on an absent id it
\* returns 0 and creates no record.
C21_MarkSetsCompletedOnly ==
  \A c \in CallsOf("markAsCompleted") :
    LET found == {r \in calls[c].before : r.id = calls[c].id}
    IN  IF found = {}
        THEN calls[c].out = 0 /\ calls[c].after = calls[c].before
        ELSE \A r \in found :
               \E r2 \in calls[c].after :
                 /\ calls[c].after \ {r2} = calls[c].before \ {r}
                 /\ r2.completed = TRUE
                 /\ r2.actualTime = calls[c].at
                 /\ r2.actualTime # NULL
                 /\ r2.id = r.id
                 /\ r2.medicationId = r.medicationId
                 /\ r2.scheduledTime = r.scheduledTime
                 /\ r2.createdAt = r.createdAt

\* a record that was not completed is marked while other records are stored,
\* then an id that is not stored is marked
C21_Witness ==
  /\ Len(calls) = 2
  /\ calls[1].op = "markAsCompleted"
  /\ \E r \in calls[1].before :
       /\ r.id = calls[1].id
       /\ ~r.completed
       /\ r.actualTime = NULL
  /\ Cardinality(calls[1].before) >= 3
  /\ calls[1].out = 1
  /\ \A r \in calls[2].before : r.id # calls[2].id
  /\ calls[2].out = 0
  /\ calls[2].after # {}

-----------------------------------------------------------------------------
(* Failed writes of handleCheckboxChange *)

\* the step in which the createMedicationRecord of addRecord or the
\* updateMedicationRecord of editRecord, awaited by handler h, fails
WriteFails(h) ==
  /\ hs[h].pc \in {"addRec", "editRec"}
  /\ hs'[h] # hs[h]
  /\ faults' = faults + 1

\* the catch block of handleCheckboxChange ends the handler: loadSchedule
\* and onScheduleUpdated are not run
CallerErrorPath(h) == hs'[h] = IdleHandler

\* C22: when the write of addRecord / editRecord fails while an occurrence
\* is marked, the failure reaches handleCheckboxChange as an error: its
\* error path runs, or at least the store is left reporting the failure,
\* and the handler does not go on as after a successful write.
C22_WriteFaultReachesCaller ==
  [][\A h \in 1..MaxHandlers :
       WriteFails(h) => CallerErrorPath(h) \/ store'.error # NULL]_vars

-----------------------------------------------------------------------------
(* deleteMedication and createMedication called on drawn tables *)

\* tables of the two stores; a record may be left without its medication
\* (a record written by a handler that ran on after the delete)
InitTables ==
  /\ tz = 0
  /\ now = 4 * 24
  /\ dbMeds \in SUBSET {StoredMedication(1, NULL), StoredMedication(2, NULL)}
  /\ dbRecs \in SmallTables
  /\ calls = <<>>
  /\ QuietApp
  /\ QuietGen

CallDelete ==
  /\ Len(calls) < MaxCalls
  /\ \E id \in UpdateIds :
       LET result == deleteMedication(id)
       IN  /\ dbMeds' = result.meds
           /\ dbRecs' = result.recs
           /\ calls' = Append(calls,
                [op |-> "deleteMedication", id |-> id,
                 beforeMeds |-> dbMeds, beforeRecs |-> dbRecs,
                 afterMeds |-> result.meds, afterRecs |-> result.recs])
  /\ UNCHANGED <<tz, now, genVars, quietVars, nextRec>>

CreateInputs ==
  {[name |-> <<NameBase + 1>>, dosage |-> <<DoseBase + 1>>,
    times |-> <<T08>>, startDate |-> DateOnly(1), endDate |-> NULL],
   [name |-> <<NameBase + 7>>, dosage |-> <<DoseBase + 7>>,
    times |-> <<T20, T08>>, startDate |-> DateOnly(2), endDate |-> DateOnly(3)]}

\* the id is `med_${Date.now()}_${random}`: any id, one of a stored
\* medication included
CallCreate ==
  /\ Len(calls) < MaxCalls
  /\ \E medication \in CreateInputs, id \in UpdateIds :
       LET result == createMedication(medication, id)
       IN  /\ dbMeds' = result.meds
           /\ calls' = Append(calls,
                [op |-> "createMedication", medication |-> medication,
                 at |-> NowIso, beforeMeds |-> dbMeds,
                 afterMeds |-> result.meds, out |-> result.out,
                 rejected |-> result.rejected])
  /\ UNCHANGED <<tz, now, genVars, dbRecs, quietVars, nextRec>>

NextTables == CallDelete \/ CallCreate

SpecTables == InitTables /\ [][NextTables]_vars

\* exactly the definition id and the records of id are removed
DeleteFrame(call) ==
  /\ call.afterMeds \subseteq call.beforeMeds
  /\ call.afterRecs \subseteq call.beforeRecs
  /\ \A m \in call.beforeMeds : m \in call.afterMeds <=> m.id # call.id
  /\ \A r \in call.beforeRecs :
       r \in call.afterRecs <=> r.medicationId # call.id

\* a delete directly after a delete of the same id changes nothing
DeleteTwice ==
  \A c \in CallsOf("deleteMedication") :
    (c > 1 /\ calls[c - 1].op = "deleteMedication"
           /\ calls[c - 1].id = calls[c].id)
      => /\ calls[c].afterMeds = calls[c - 1].afterMeds
         /\ calls[c].afterRecs = calls[c - 1].afterRecs

C24_CreateAddsOneDefinition ==
  \A c \in CallsOf("createMedication") :
    LET call == calls[c]
    IN  /\ call.beforeMeds \subseteq call.afterMeds
        /\ IF call.rejected
           THEN call.afterMeds = call.beforeMeds
           ELSE /\ \A m \in call.beforeMeds : m.id # call.out
                /\ \E m \in call.afterMeds :
                     /\ call.afterMeds \ call.beforeMeds = {m}
                     /\ {x \in call.afterMeds : x.id = call.out} = {m}
                     /\ \A f \in DOMAIN call.medication :
                          m[f] = call.medication[f]
                     /\ m.createdAt = m.updatedAt
                     /\ m.createdAt = call.at

\* a definition is created next to a stored one, and a second call whose
\* generated id is the same is rejected
C24_Witness ==
  /\ Len(calls) = 2
  /\ calls[1].op = "createMedication"
  /\ calls[2].op = "createMedication"
  /\ calls[1].beforeMeds # {}
  /\ ~calls[1].rejected
  /\ Cardinality(calls[1].afterMeds) = Cardinality(calls[1].beforeMeds) + 1
  /\ calls[2].rejected
  /\ calls[2].medication # calls[1].medication
  /\ calls[2].afterMeds = calls[1].afterMeds

-----------------------------------------------------------------------------
(* isWeatherDataStale called on drawn timestamps *)

\* ages in milliseconds: whole hours, one minute and one millisecond less,
\* one millisecond more; an age below 0 is a timestamp after now
Ages ==
  {h * MsPerHour + d : h \in 0..MaxAgeHours,
                       d \in {-(MsPerHour \div 60), -1, 0, 1}}

MaxAgeInputs == {1, 6, DefaultMaxAgeHours}

NowMs == now * MsPerHour

InitStale ==
  /\ tz = 0
  /\ now = 4 * 24
  /\ dbMeds = {}
  /\ dbRecs = {}
  /\ calls = <<>>
  /\ QuietApp
  /\ QuietGen

StaleCall(age, maxAgeHours) ==
  [op |-> "isWeatherDataStale", nowMs |-> NowMs, dataTime |-> NowMs - age,
   maxAgeHours |-> maxAgeHours,
   out |-> isWeatherDataStale(NowMs, NowMs - age, maxAgeHours)]

CallStale ==
  /\ calls = <<>>
  /\ \E age \in Ages, maxAgeHours \in MaxAgeInputs \ {DefaultMaxAgeHours} :
       calls' = <<StaleCall(age, maxAgeHours)>>
  /\ UNCHANGED <<tz, now, genVars, dbMeds, dbRecs, quietVars, nextRec>>

\* isWeatherDataStale(timestamp): maxAgeHours takes its default
CallStaleDefault ==
  /\ Len(calls) < MaxCalls
  /\ \A k \in 1..Len(calls) : calls[k].maxAgeHours = DefaultMaxAgeHours
  /\ \E age \in Ages :
       calls' = Append(calls, StaleCall(age, DefaultMaxAgeHours))
  /\ UNCHANGED <<tz, now, genVars, dbMeds, dbRecs, quietVars, nextRec>>

NextStale == CallStale \/ CallStaleDefault

SpecStale == InitStale /\ [][NextStale]_vars

-----------------------------------------------------------------------------
(* checkWeatherAlerts and isStorageEnvironmentGood on drawn measurements *)

\* the values within BandTenths tenths of a threshold
Band(threshold) ==
  {10 * threshold + d : d \in -BandTenths..BandTenths}

BandMeasurements ==
  [temperature : Band(HIGH_TEMP_THRESHOLD),
   humidity : Band(HIGH_HUMIDITY_THRESHOLD)]

Measurements ==
  [temperature : Band(HIGH_TEMP_THRESHOLD) \cup {NaN},
   humidity : Band(HIGH_HUMIDITY_THRESHOLD) \cup {NaN}]

CallWeather ==
  /\ calls = <<>>
  /\ \E weather \in Measurements :
       calls' = <<[op |-> "weather", weather |-> weather,
                   alerts |-> checkWeatherAlerts(weather),
                   good |-> isStorageEnvironmentGood(weather)]>>
  /\ UNCHANGED <<tz, now, genVars, dbMeds, dbRecs, quietVars, nextRec>>

NextWeather == CallWeather

SpecWeather == InitStale /\ [][NextWeather]_vars

-----------------------------------------------------------------------------
(* Records and the medications they refer to *)

\* C27: in every reachable state of the application, under every
\* interleaving of createMedication, deleteMedication and the record
\* creation of handleCheckboxChange, the medicationId of every stored record
\* is the id of a stored medication.
C27_ReferentialIntegrity ==
  \A r \in dbRecs : \E m \in dbMeds : m.id = r.medicationId

-----------------------------------------------------------------------------
(* The actions of useMedicationStore, called one at a time; mgr is the     *)
(* action in progress, mgr.id its argument                                 *)

ErrUpdateMed == <<14>>

StoreActions ==
  {"fetchMedications", "fetchActiveMedications", "addMedication",
   "updateMedication", "deleteMedication", "fetchRecordsByDateRange",
   "addRecord", "editRecord"}

\* the message set by the catch block of an action
StoreError(op) ==
  CASE op = "fetchMedications" -> ErrFetchMeds
    [] op = "fetchActiveMedications" -> ErrFetchActive
    [] op = "addMedication" -> ErrAddMed
    [] op = "updateMedication" -> ErrUpdateMed
    [] op = "deleteMedication" -> ErrDeleteMed
    [] op = "fetchRecordsByDateRange" -> ErrFetchRecs
    [] op = "addRecord" -> ErrAddRec
    [] op = "editRecord" -> ErrEditRec

DayWindows ==
  {<<DateOnly(d) \o StartOfDay, DateOnly(d) \o EndOfDay>> : d \in {1, 2}}

\* the arguments an action may be called with
StoreArgs(op) ==
  CASE op \in {"updateMedication", "deleteMedication"} -> {MedId(1), MedId(2)}
    [] op = "fetchRecordsByDateRange" -> DayWindows
    [] op = "addRecord" -> {LocalStr(1, 8), LocalStr(2, 8)}
    [] op = "editRecord" -> {RecId(1), RecId(4)}
    [] OTHER -> {NULL}

InitStore ==
  /\ tz = 0
  /\ now = 4 * 24
  /\ dbMeds \in {{}, {StoredMedication(2, NULL)}}
  /\ dbRecs \in {{}, {StoredRecord(4, 2, LocalStr(2, 8), FALSE)}}
  /\ calls = <<>>
  /\ QuietApp
  /\ QuietGen

\* an action up to its first await: set({ loading: true, error: null })
StoreStart ==
  /\ mgr.pc = "idle"
  /\ \E op \in StoreActions :
       /\ op = "addMedication" => nextMed < MaxMeds
       /\ op = "addRecord" => nextRec < MaxRecs
       /\ \E arg \in StoreArgs(op) :
            mgr' = [pc |-> "first", op |-> op, id |-> arg]
  /\ store' = Loading(store)
  /\ UNCHANGED <<envVars, dbMeds, dbRecs, tx, hs, scheduleItems, uiLoading,
                 nextMed, nextRec, faults, effectLen>>

\* set({ medications, loading: false }) and set({ records, loading: false })
WithMedications(s, medications) ==
  [s EXCEPT !.medications = medications, !.loading = FALSE]

WithRecords(s, records) == [s EXCEPT !.records = records, !.loading = FALSE]

\* the first awaited database call of the action settles
StoreFirstSettles ==
  /\ mgr.pc = "first"
  /\ \E outcome \in Outcomes :
       /\ Counted(outcome)
       /\ IF outcome = "fault"
          THEN /\ store' = Failed(store, StoreError(mgr.op))
               /\ mgr' = IdleMgr
               /\ UNCHANGED <<dbMeds, dbRecs, nextMed, nextRec>>
          ELSE CASE mgr.op = "fetchMedications" ->
                      /\ store' = WithMedications(store, getAllMedications)
                      /\ mgr' = IdleMgr
                      /\ UNCHANGED <<dbMeds, dbRecs, nextMed, nextRec>>
                 [] mgr.op = "fetchActiveMedications" ->
                      /\ store' = WithMedications(store, getActiveMedications)
                      /\ mgr' = IdleMgr
                      /\ UNCHANGED <<dbMeds, dbRecs, nextMed, nextRec>>
                 [] mgr.op = "addMedication" ->
                      /\ \E medication \in FormInputs :
                           dbMeds' = createMedication(medication,
                                                      MedId(nextMed + 1)).meds
                      /\ nextMed' = nextMed + 1
                      /\ mgr' = [mgr EXCEPT !.pc = "second"]
                      /\ UNCHANGED <<store, dbRecs, nextRec>>
                 [] mgr.op = "updateMedication" ->
                      /\ \E updates \in UpdateInputs :
                           dbMeds' = updateMedication(mgr.id, updates).rows
                      /\ mgr' = [mgr EXCEPT !.pc = "second"]
                      /\ UNCHANGED <<store, dbRecs, nextMed, nextRec>>
                 [] mgr.op = "deleteMedication" ->
                      /\ dbMeds' = deleteMedication(mgr.id).meds
                      /\ dbRecs' = deleteMedication(mgr.id).recs
                      /\ mgr' = [mgr EXCEPT !.pc = "second"]
                      /\ UNCHANGED <<store, nextMed, nextRec>>
                 [] mgr.op = "fetchRecordsByDateRange" ->
                      /\ store' = WithRecords(store,
                                    getRecordsByDateRange(mgr.id[1], mgr.id[2]))
                      /\ mgr' = IdleMgr
                      /\ UNCHANGED <<dbMeds, dbRecs, nextMed, nextRec>>
                 [] mgr.op = "addRecord" ->
                      /\ dbRecs' = dbRecs \cup
                           {NewRecord([medicationId |-> MedId(2),
                                       scheduledTime |-> mgr.id,
                                       actualTime |-> NowIso,
                                       completed |-> TRUE],
                                      RecId(nextRec + 1))}
                      /\ nextRec' = nextRec + 1
                      \* get().fetchRecordsByDateRange(...) up to its await
                      /\ mgr' = [mgr EXCEPT
                                   !.pc = "nested",
                                   !.id = <<<<mgr.id[1]>> \o StartOfDay,
                                            <<mgr.id[1]>> \o EndOfDay>>]
                      /\ store' = Loading(store)
                      /\ UNCHANGED <<dbMeds, nextMed>>
                 [] mgr.op = "editRecord" ->
                      /\ dbRecs' = UpdatedRecords(dbRecs, mgr.id,
                                     [completed |-> TRUE, actualTime |-> NowIso])
                      /\ IF Len(store.records) > 0
                         THEN /\ mgr' = [mgr EXCEPT
                                           !.pc = "nested",
                                           !.id = <<FirstScheduledTime(store.records),
                                                    LastScheduledTime(store.records)>>]
                              /\ store' = Loading(store)
                         ELSE /\ mgr' = IdleMgr
                              /\ store' = store
                      /\ UNCHANGED <<dbMeds, nextMed, nextRec>>
  /\ UNCHANGED <<envVars, tx, hs, scheduleItems, uiLoading, effectLen>>

\* await getAllMedications() of addMedication, updateMedication and
\* deleteMedication settles
StoreSecondSettles ==
  /\ mgr.pc = "second"
  /\ \E outcome \in Outcomes :
       /\ Counted(outcome)
       /\ store' = IF outcome = "fault"
                   THEN Failed(store, StoreError(mgr.op))
                   ELSE WithMedications(store, getAllMedications)
  /\ mgr' = IdleMgr
  /\ UNCHANGED <<envVars, dbMeds, dbRecs, tx, hs, scheduleItems, uiLoading,
                 nextMed, nextRec, effectLen>>

\* the fetchRecordsByDateRange called by addRecord and editRecord settles;
\* it catches its own failure, and the calling action sets nothing more
StoreNestedSettles ==
  /\ mgr.pc = "nested"
  /\ \E outcome \in Outcomes :
       /\ Counted(outcome)
       /\ store' = IF outcome = "fault"
                   THEN Failed(store, ErrFetchRecs)
                   ELSE WithRecords(store,
                          getRecordsByDateRange(mgr.id[1], mgr.id[2]))
  /\ mgr' = IdleMgr
  /\ UNCHANGED <<envVars, dbMeds, dbRecs, tx, hs, scheduleItems, uiLoading,
                 nextMed, nextRec, effectLen>>

StoreSettles == StoreFirstSettles \/ StoreSecondSettles \/ StoreNestedSettles

NextStore == StoreStart \/ StoreSettles

\* every awaited database call settles
SpecStore == InitStore /\ [][NextStore]_vars /\ WF_vars(StoreSettles)

\* C28: every action of the store that sets loading = true sets loading =
\* false by the time its promise resolves, on success and on failure and for
\* every store content: loading is not left true.
C28_LoadingEventuallyFalse == store.loading ~> ~store.loading

-----------------------------------------------------------------------------
(* The schedule list mounted on tables that hold a definition with an end  *)
(* date, in every time zone; no storage request fails                      *)

\* the end dates the form stores are date-only strings
LastDayTables ==
  {{StoredMedication(1, DateOnly(d))} \cup second :
     d \in 2..MaxDay, second \in {{}, {StoredMedication(2, NULL)}}}

InitLastDay ==
  /\ tz \in TzOffsets
  /\ now \in {24 * d + h : d \in 1..2, h \in {0, 8, 20}}
  /\ dbMeds \in LastDayTables
  /\ dbRecs = {}
  /\ calls = <<>>
  /\ tx = IdleTx
  /\ store = IdleStore
  /\ mgr = IdleMgr
  /\ hs = [h \in 1..MaxHandlers |-> IdleHandler]
  /\ scheduleItems = <<>>
  /\ uiLoading = TRUE
  /\ nextMed = 0
  /\ nextRec = 0
  /\ faults = MaxFaults
  /\ effectLen = NotMounted
  /\ QuietGen

NextLastDay ==
  \/ \E h \in 1..MaxHandlers : StartLoad(h)
  \/ \E h \in 1..MaxHandlers : LoadMedsDone(h)
  \/ \E h \in 1..MaxHandlers : LoadRecsDone(h)
  \/ ClockTick

SpecLastDay == InitLastDay /\ [][NextLastDay]_vars

\* loadSchedule of handler h renders the schedule it computed for today
RendersToday(h) ==
  /\ hs[h].pc = "loadRecs"
  /\ hs'[h].pc = "idle"
  /\ hs[h].from = FormatYMD(now) \o StartOfDay

\* the rendered schedule holds every occurrence of m on the day date
OccurrencesRendered(items, m, date) ==
  \A k \in 1..Len(m.times) :
    \E j \in 1..Len(items) :
      /\ items[j].medicationId = m.id
      /\ items[j].scheduledTime = date \o <<TSEP>> \o m.times[k] \o <<SEC>>

\* C29: the last day of a definition is included: for a definition whose end
\* date is the calendar date D, the schedule that loadSchedule computes for D
\* while the current instant lies within D holds the definition's
\* occurrences for D.
C29_LastDayIsScheduled ==
  [][\A h \in 1..MaxHandlers :
       RendersToday(h) =>
         \A m \in dbMeds :
           m.endDate = FormatYMD(now) =>
             OccurrencesRendered(scheduleItems', m, m.endDate)]_vars

-----------------------------------------------------------------------------
(* pages/Calendar/Calendar.tsx: the month load.  The displayed month is    *)
(* the days 1..MaxDay; day 0 and day MaxDay + 1 lie in the adjacent months. *)
(* No storage request fails.                                               *)

MS999 == 8     \* ":59:59.999Z" after the hour

MonthDays == 1..MaxDay

\* dayjs(monthStart).startOf("month").toDate(): local midnight of day 1
StartOfMonth(monthStart) == 24 * 1 - tz

\* dayjs(monthStart).endOf("month").toDate(): local 23:59:59.999 of the
\* last day; the hour that instant lies in
EndOfMonth(monthStart) == 24 * MaxDay + 23 - tz

\* Date.prototype.toISOString of the two bounds
StartIso(t) == UtcStr(t \div 24, t % 24)

EndIso(t) == <<DayBase + (t \div 24), TSEP, TimeBase + (t % 24), MS999>>

\* String.prototype.startsWith
StartsWith(str, prefix) ==
  /\ Len(str) >= Len(prefix)
  /\ SubSeq(str, 1, Len(prefix)) = prefix

\* records.filter((r) => r.scheduledTime.startsWith(dateKey))
DayRecords(records, dateKey) ==
  LET OfDay(r) == StartsWith(r.scheduledTime, dateKey)
  IN  SelectSeq(records, OfDay)

\* the merged map of loadMonthSchedule, from the store's list
MonthSchedule(medications, monthStart) ==
  LET startDate == StartOfMonth(monthStart)
      endDate == EndOfMonth(monthStart)
      generatedScheduleMap == RangeLoop(medications, startDate, endDate, <<>>)
      records == getRecordsByDateRange(StartIso(startDate), EndIso(endDate))
  IN  [dateKey \in DOMAIN generatedScheduleMap |->
         mergeScheduleWithRecords(generatedScheduleMap[dateKey],
                                  DayRecords(records, dateKey))]

T02 == <<TimeBase + 2>>

CalendarMedication ==
  [StoredMedication(1, NULL) EXCEPT !.times = <<T02, T20>>]

\* records of CalendarMedication on the first and the last day of the month
\* and in the adjacent months
CalendarRecords ==
  {StoredRecord(1, 1, LocalStr(1, 2), TRUE),
   StoredRecord(2, 1, LocalStr(1, 20), TRUE),
   StoredRecord(3, 1, LocalStr(MaxDay, 2), TRUE),
   StoredRecord(4, 1, LocalStr(MaxDay, 20), TRUE),
   StoredRecord(5, 1, LocalStr(0, 20), TRUE),
   StoredRecord(6, 1, LocalStr(MaxDay + 1, 2), TRUE)}

InitMonth ==
  /\ tz \in TzOffsets
  /\ now \in {24 * 1 + 12, 24 * MaxDay + 12}
  /\ dbMeds = {CalendarMedication}
  /\ dbRecs \in SUBSET CalendarRecords
  /\ calls = <<>>
  /\ QuietApp
  /\ QuietGen

\* loadMonthSchedule(activeStartDate), activeStartDate being new Date() at
\* mount; fetchActiveMedications runs when the store's list is empty
CallLoadMonth ==
  /\ Len(calls) < MaxCalls
  /\ LET fetched == IF Len(store.medications) = 0
                    THEN WithMedications(Loading(store), getActiveMedications)
                    ELSE store
     IN  /\ store' = fetched
         /\ calls' = Append(calls,
              [op |-> "loadMonthSchedule", tz |-> tz, stored |-> dbRecs,
               out |-> MonthSchedule(fetched.medications, now)])
  /\ UNCHANGED <<tz, now, genVars, dbMeds, dbRecs, tx, mgr, hs, scheduleItems,
                 uiLoading, nextMed, nextRec, faults, effectLen>>

NextMonth == CallLoadMonth

SpecMonth == InitMonth /\ [][NextMonth]_vars

\* the day of the month a record is scheduled on, 0 when outside the month
MonthDayOf(r) ==
  IF r.scheduledTime[1] - DayBase \in MonthDays
  THEN r.scheduledTime[1] - DayBase
  ELSE 0

\* the record is merged into an occurrence of its day
MergedIntoDay(map, r) ==
  /\ DateOnly(MonthDayOf(r)) \in DOMAIN map
  /\ \E j \in 1..Len(map[DateOnly(MonthDayOf(r))]) :
       /\ map[DateOnly(MonthDayOf(r))][j].recordId = r.id
       /\ map[DateOnly(MonthDayOf(r))][j].scheduledTime = r.scheduledTime

\* C30: in the calendar's month load, every stored record whose scheduledTime
\* falls on a day of the displayed month is fetched and merged into that
\* day's occurrences, for every local UTC offset.
C30_MonthRecordsAreMerged ==
  \A c \in CallsOf("loadMonthSchedule") :
    \A r \in calls[c].stored :
      MonthDayOf(r) # 0 => MergedIntoDay(calls[c].out, r)

====
